---------------------------- MODULE Spec2Model ----------------------------
(***************************************************************************)
(* A model of three programs of the repository:                            *)
(*   - src/tools/rpi-diagnostics.py    the Python diagnostics server       *)
(*   - src/svc/monitoring/ai-hat-monitor.py   the Prometheus exporter      *)
(*   - src/pihole-config-report.py     the shell variant of the server     *)
(* Text that the programs parse is modelled as a sequence of one-character *)
(* strings, so that split, substring search, digit filters and number      *)
(* conversions are computed the way the code computes them.  Text that is  *)
(* only copied into a report is a one-element sequence holding the text.   *)
(***************************************************************************)
EXTENDS Integers, Sequences, FiniteSets, TLC

(***************************************************************************)
(* String operations of Python, on sequences of characters.                *)
(***************************************************************************)
Digits == {"0", "1", "2", "3", "4", "5", "6", "7", "8", "9"}

DigitVal(c) ==
    CASE c = "0" -> 0 [] c = "1" -> 1 [] c = "2" -> 2 [] c = "3" -> 3
      [] c = "4" -> 4 [] c = "5" -> 5 [] c = "6" -> 6 [] c = "7" -> 7
      [] c = "8" -> 8 [] c = "9" -> 9

Whitespace == {" ", "\n", "\t"}

\* str.lower() on the letters that occur in the modelled outputs
LowerChar(c) ==
    CASE c = "A" -> "a" [] c = "B" -> "b" [] c = "C" -> "c" [] c = "D" -> "d"
      [] c = "E" -> "e" [] c = "G" -> "g" [] c = "I" -> "i" [] c = "L" -> "l"
      [] c = "M" -> "m" [] c = "N" -> "n" [] c = "P" -> "p" [] c = "R" -> "r"
      [] c = "S" -> "s" [] c = "T" -> "t" [] c = "U" -> "u"
      [] OTHER -> c

Lower(s) == [i \in 1..Len(s) |-> LowerChar(s[i])]

\* sub in s
Contains(s, sub) ==
    \E i \in 0..(Len(s) - Len(sub)) : SubSeq(s, i + 1, i + Len(sub)) = sub

\* s.find(sub) + 1 : the first position of sub in s, 0 when absent
IndexOf(s, sub) ==
    IF Contains(s, sub)
    THEN CHOOSE i \in 1..(Len(s) - Len(sub) + 1) :
            /\ SubSeq(s, i, i + Len(sub) - 1) = sub
            /\ \A j \in 1..(i - 1) : SubSeq(s, j, j + Len(sub) - 1) # sub
    ELSE 0

\* s.split(sep) : always at least one part
RECURSIVE SplitOn(_, _)
SplitOn(s, sep) ==
    LET i == IndexOf(s, sep)
    IN  IF i = 0 THEN <<s>>
        ELSE <<SubSeq(s, 1, i - 1)>> \o SplitOn(SubSeq(s, i + Len(sep), Len(s)), sep)

\* s.split(sep, 1) : one or two parts
SplitOnce(s, sep) ==
    LET i == IndexOf(s, sep)
    IN  IF i = 0 THEN <<s>>
        ELSE <<SubSeq(s, 1, i - 1), SubSeq(s, i + Len(sep), Len(s))>>

\* s.strip()
RECURSIVE Strip(_)
Strip(s) ==
    IF s = <<>> THEN s
    ELSE IF s[1] \in Whitespace THEN Strip(Tail(s))
    ELSE IF s[Len(s)] \in Whitespace THEN Strip(SubSeq(s, 1, Len(s) - 1))
    ELSE s

\* s.split() : the maximal runs of non-whitespace characters
RECURSIVE SplitWs(_)
SplitWs(s) ==
    LET t == Strip(s)
    IN  IF t = <<>> THEN <<>>
        ELSE LET ends == {i \in 1..Len(t) : t[i] \in Whitespace}
                 e == IF ends = {} THEN Len(t) + 1
                      ELSE CHOOSE i \in ends : \A j \in ends : i <= j
             IN  <<SubSeq(t, 1, e - 1)>> \o SplitWs(SubSeq(t, e, Len(t)))

\* ''.join(c for c in s if keep(c)) for a set of kept characters
RECURSIVE FilterChars(_, _)
FilterChars(s, keep) ==
    IF s = <<>> THEN <<>>
    ELSE (IF s[1] \in keep THEN <<s[1]>> ELSE <<>>) \o FilterChars(Tail(s), keep)

\* s.isdigit()
IsDigitStr(s) == s # <<>> /\ \A i \in 1..Len(s) : s[i] \in Digits

\* the number a string of digits denotes
RECURSIVE DigitsValue(_)
DigitsValue(s) ==
    IF s = <<>> THEN 0 ELSE 10 * DigitsValue(SubSeq(s, 1, Len(s) - 1)) + DigitVal(s[Len(s)])

RECURSIVE Pow10(_)
Pow10(n) == IF n = 0 THEN 1 ELSE 10 * Pow10(n - 1)

\* int(s) : ok is FALSE where Python raises ValueError
ParseInt(s) ==
    LET t == Strip(s)
        neg == t # <<>> /\ t[1] = "-"
        u == IF t # <<>> /\ t[1] \in {"-", "+"} THEN Tail(t) ELSE t
    IN  IF IsDigitStr(u)
        THEN [ok |-> TRUE, val |-> IF neg THEN 0 - DigitsValue(u) ELSE DigitsValue(u)]
        ELSE [ok |-> FALSE, val |-> 0]

\* float(s) for plain decimal text: the value is num / den; ok is FALSE where
\* Python raises ValueError
ParseFloat(s) ==
    LET t == Strip(s)
        neg == t # <<>> /\ t[1] = "-"
        u == IF t # <<>> /\ t[1] \in {"-", "+"} THEN Tail(t) ELSE t
        parts == SplitOn(u, <<".">>)
        ip == parts[1]
        fp == IF Len(parts) = 2 THEN parts[2] ELSE <<>>
        wellformed == /\ Len(parts) <= 2
                      /\ \A i \in 1..Len(u) : u[i] \in Digits \cup {"."}
                      /\ ip \o fp # <<>>
        mag == DigitsValue(ip \o fp)
    IN  IF wellformed
        THEN [ok |-> TRUE, num |-> IF neg THEN 0 - mag ELSE mag, den |-> Pow10(Len(fp))]
        ELSE [ok |-> FALSE, num |-> 0, den |-> 1]

\* str(n) for n >= 0
RECURSIVE IntToStr(_)
IntToStr(n) ==
    LET d == CHOOSE c \in Digits : DigitVal(c) = n % 10
    IN  IF n < 10 THEN <<d>> ELSE IntToStr(n \div 10) \o <<d>>

\* round(num / den) to the nearest integer, ties to even, as the format
\* specifications .0f and .1f round (num >= 0, den > 0)
RoundHalfEven(num, den) ==
    LET q == num \div den
        r == num % den
    IN  IF 2 * r < den THEN q
        ELSE IF 2 * r > den THEN q + 1
        ELSE IF q % 2 = 0 THEN q ELSE q + 1

\* f"{num/den:.1f}"
FormatFixed1(num, den) ==
    LET t == RoundHalfEven(10 * num, den)
    IN  IntToStr(t \div 10) \o <<".">> \o IntToStr(t % 10)

\* dict.get(key, default)
Get(d, key, default) == IF key \in DOMAIN d THEN d[key] ELSE default

\* the empty dict
EmptyDict == [k \in {} |-> <<>>]

(***************************************************************************)
(* The external commands of the Python diagnostics program, one name per   *)
(* run_command call site, and what each prints on a fully equipped,        *)
(* healthy Raspberry Pi 5.                                                 *)
(***************************************************************************)
BootCommands ==
    {"cpuinfo", "meminfo", "ip_wlan", "ip_eth", "lsusb_detect", "ls_i2c_detect",
     "find_fan", "fancontrol", "pgrep_fan"}

BootBase ==
    [c \in BootCommands |->
        CASE c = "cpuinfo" -> <<"R", "e", "v", "i", "s", "i", "o", "n", "	", ":", " ", "d", "0", "4", "1", "7", "0", "\n", "M", "o", "d", "e", "l", "	", "	", ":", " ", "R", "a", "s", "p", "b", "e", "r", "r", "y", " ", "P", "i", " ", "5">>
          [] c = "meminfo" -> <<"M", "e", "m", "T", "o", "t", "a", "l", ":", " ", " ", " ", " ", " ", " ", " ", " ", "8", "2", "4", "5", "0", "3", "2", " ", "k", "B">>
          [] c = "ip_wlan" -> <<"3: wlan0: <BROADCAST,MULTICAST,UP,LOWER_UP>">>
          [] c = "ip_eth" -> <<"2: eth0: <BROADCAST,MULTICAST,UP,LOWER_UP>">>
          [] c = "lsusb_detect" -> <<"B", "u", "s", " ", "0", "0", "2", " ", "D", "e", "v", "i", "c", "e", " ", "0", "0", "3", ":", " ", "I", "D", " ", "1", "8", "d", "1", ":", "9", "3", "0", "2", " ", "C", "o", "r", "a", "l", " ", "E", "d", "g", "e", " ", "T", "P", "U">>
          [] c = "ls_i2c_detect" -> <<"/", "d", "e", "v", "/", "i", "2", "c", "-", "1">>
          [] c = "find_fan" -> <<"/sys/class/thermal/cooling_device0/pwm-fan">>
          [] c = "fancontrol" -> <<"active">>
          [] c = "pgrep_fan" -> <<"812">>]

\* other things the boot commands can print: another board, a hub only, and
\* malformed text
BootVariants ==
    { ("cpuinfo" :> <<"R", "e", "v", "i", "s", "i", "o", "n", "	", ":", " ", "c", "0", "3", "1", "1", "5", "\n", "M", "o", "d", "e", "l", "	", "	", ":", " ", "R", "a", "s", "p", "b", "e", "r", "r", "y", " ", "P", "i", " ", "4">>),
      ("cpuinfo" :> <<"M", "o", "d", "e", "l", " ", "R", "a", "s", "p", "b", "e", "r", "r", "y", " ", "P", "i", " ", "5">>),
      ("cpuinfo" :> <<"R", "e", "v", "i", "s", "i", "o", "n", "\n", "M", "o", "d", "e", "l", "	", "	", ":", " ", "R", "a", "s", "p", "b", "e", "r", "r", "y", " ", "P", "i", " ", "5">>),
      ("meminfo" :> <<"M", "e", "m", "T", "o", "t", "a", "l", ":", " ", " ", " ", " ", " ", " ", " ", " ", "3", "8", "8", "4", "3", "6", "0", " ", "k", "B">>),
      ("meminfo" :> <<"M", "e", "m", "T", "o", "t", "a", "l", ":">>),
      ("meminfo" :> <<"M", "e", "m", "T", "o", "t", "a", "l", ":", " ", " ", " ", " ", " ", " ", " ", " ", "n", "/", "a", " ", "k", "B">>),
      ("meminfo" :> <<"M", "e", "m", "T", "o", "t", "a", "l", ":", " ", " ", " ", " ", " ", " ", " ", " ", "0", " ", "k", "B">>),
      ("lsusb_detect" :> <<"B", "u", "s", " ", "0", "0", "1", " ", "D", "e", "v", "i", "c", "e", " ", "0", "0", "1", ":", " ", "I", "D", " ", "1", "d", "6", "b", ":", "0", "0", "0", "2", " ", "L", "i", "n", "u", "x", " ", "F", "o", "u", "n", "d", "a", "t", "i", "o", "n", " ", "2", ".", "0", " ", "r", "o", "o", "t", " ", "h", "u", "b">>),
      ("fancontrol" :> <<"inactive">>) }

\* how a command can fail: it is not installed, exits non-zero, or hangs
FailKinds == {"missing", "nonzero", "timeout"}

\* what subprocess.run gives for a command: TimeoutExpired for one that hangs,
\* an empty stdout for one that is missing (the shell prints to stderr) or
\* exits non-zero, its stdout otherwise
Outcome(c, failed, kind, variant, base) ==
    IF c \in failed
    THEN [raised |-> kind = "timeout", stdout |-> <<>>]
    ELSE [raised |-> FALSE,
          stdout |-> IF c \in DOMAIN variant THEN variant[c] ELSE base[c]]

run_command(result) ==
    IF result.raised THEN <<>> ELSE Strip(result.stdout)

\* the outputs run_command returns while the commands of `base` run
Outputs(failed, kind, variant, base) ==
    [c \in DOMAIN base |-> run_command(Outcome(c, failed, kind, variant, base))]

(***************************************************************************)
(* RPiDiagnostics.detect_hardware                                          *)
(***************************************************************************)
DefaultInfo ==
    [model |-> <<"U", "n", "k", "n", "o", "w", "n">>, revision |-> <<"U", "n", "k", "n", "o", "w", "n">>, memory |-> <<"0", " ", "G", "B">>,
     has_wifi |-> FALSE, has_ethernet |-> FALSE, has_ai_hat |-> FALSE,
     has_cooling |-> FALSE]

\* the loop over the lines of /proc/cpuinfo; exc where line.split(':', 1)[1]
\* raises IndexError
RECURSIVE ScanCpuinfo(_, _)
ScanCpuinfo(lines, info) ==
    IF lines = <<>> THEN [exc |-> FALSE, info |-> info]
    ELSE LET line == Head(lines)
             parts == SplitOnce(line, <<":">>)
         IN  IF Contains(line, <<"M", "o", "d", "e", "l">>)
             THEN IF Len(parts) < 2 THEN [exc |-> TRUE, info |-> info]
                  ELSE ScanCpuinfo(Tail(lines), [info EXCEPT !.model = Strip(parts[2])])
             ELSE IF Contains(line, <<"R", "e", "v", "i", "s", "i", "o", "n">>)
             THEN IF Len(parts) < 2 THEN [exc |-> TRUE, info |-> info]
                  ELSE ScanCpuinfo(Tail(lines), [info EXCEPT !.revision = Strip(parts[2])])
             ELSE ScanCpuinfo(Tail(lines), info)

\* the memory field; exc where meminfo.split()[1] raises IndexError or int()
\* raises ValueError
ScanMeminfo(meminfo, info) ==
    IF meminfo = <<>> THEN [exc |-> FALSE, info |-> info]
    ELSE LET cols == SplitWs(meminfo)
             mem_kb == IF Len(cols) < 2 THEN [ok |-> FALSE, val |-> 0] ELSE ParseInt(cols[2])
         IN  IF ~mem_kb.ok THEN [exc |-> TRUE, info |-> info]
             ELSE [exc |-> FALSE,
                   info |-> [info EXCEPT !.memory =
                       IntToStr(RoundHalfEven(mem_kb.val, 1024 * 1024)) \o <<" ", "G", "B">>]]

AiKeywordsUsb == {<<"c", "o", "r", "a", "l">>, <<"n", "e", "u", "r", "a", "l">>, <<"t", "p", "u">>, <<"e", "d", "g", "e">>}

detect_hardware(out) ==
    LET cpu == ScanCpuinfo(SplitOn(out["cpuinfo"], <<"\n">>), DefaultInfo)
        mem == ScanMeminfo(out["meminfo"], cpu.info)
        usb == \E keyword \in AiKeywordsUsb : Contains(Lower(out["lsusb_detect"]), keyword)
    IN  IF cpu.exc THEN cpu
        ELSE IF mem.exc THEN mem
        ELSE [exc |-> FALSE,
              info |-> [mem.info EXCEPT
                  !.has_wifi = out["ip_wlan"] # <<>>,
                  !.has_ethernet = out["ip_eth"] # <<>>,
                  !.has_ai_hat = usb \/ (~usb /\ out["ls_i2c_detect"] # <<>>),
                  !.has_cooling = \/ out["find_fan"] # <<>>
                                  \/ out["fancontrol"] = <<"active">>
                                  \/ out["pgrep_fan"] # <<>>]]

(***************************************************************************)
(* The commands of a report or status request and what they print on the   *)
(* same healthy, fully equipped board.                                     *)
(***************************************************************************)
SystemCommands == {"uptime_p", "uptime", "free", "measure_temp", "thermal_zone"}
Rails == <<"core", "sdram_c", "sdram_i", "sdram_p">>
VoltCommand(rail) == "volts_" \o rail
PowerCommands ==
    {"get_throttled", "dmesg_power"} \cup {VoltCommand(Rails[i]) : i \in 1..Len(Rails)}
NetworkCommands ==
    {"eth_link", "eth_ip", "iwconfig", "route_gw", "ping_gw", "ping_inet", "nslookup",
     "ip_addr", "ip_route", "net_dev"}
StorageCommands == {"df", "lsblk", "lsusb", "mount"}
AiHatCommands == {"lsusb_grep", "ls_i2c", "i2cdetect", "pinout", "ls_hwmon", "cat_power"}
LogCommands == {"dmesg_crit", "dmesg_net", "dmesg_pwr"}
CardCommands == {"df_root"}

StatusCommands == SystemCommands \cup PowerCommands \cup NetworkCommands
ReportCommands ==
    StatusCommands \cup StorageCommands \cup AiHatCommands \cup LogCommands
        \cup CardCommands

ReportBase ==
    [c \in ReportCommands |->
        CASE c = "uptime_p" -> <<"up 3 days, 4 hours">>
          [] c = "uptime" -> <<"1", "0", ":", "1", "4", " ", "u", "p", " ", "3", " ", "d", "a", "y", "s", ",", " ", "l", "o", "a", "d", " ", "a", "v", "e", "r", "a", "g", "e", ":", " ", "0", ".", "5", "2", ",", " ", "0", ".", "4", "1", ",", " ", "0", ".", "3", "0">>
          [] c = "free" -> <<"t", "o", "t", "a", "l", " ", "u", "s", "e", "d", " ", "f", "r", "e", "e", "\n", "M", "e", "m", ":", " ", "8", "2", "4", "5", "0", "3", "2", " ", "2", "0", "6", "1", "2", "5", "8", " ", "6", "1", "8", "3", "7", "7", "4", "\n", "S", "w", "a", "p", ":", " ", "0", " ", "0", " ", "0">>
          [] c = "measure_temp" -> <<"t", "e", "m", "p", "=", "4", "5", ".", "2", "'", "C">>
          [] c = "thermal_zone" -> <<"4", "5", "2", "7", "7">>
          [] c = "get_throttled" -> <<"t", "h", "r", "o", "t", "t", "l", "e", "d", "=", "0", "x", "0">>
          [] c = "volts_core" -> <<"v", "o", "l", "t", "=", "0", ".", "8", "5", "0", "0", "V">>
          [] c = "volts_sdram_c" -> <<"v", "o", "l", "t", "=", "1", ".", "1", "0", "0", "0", "V">>
          [] c = "volts_sdram_i" -> <<"v", "o", "l", "t", "=", "1", ".", "1", "0", "0", "0", "V">>
          [] c = "volts_sdram_p" -> <<"v", "o", "l", "t", "=", "1", ".", "1", "1", "2", "5", "V">>
          [] c = "dmesg_power" -> <<"[1.20] pmic: power good", "\n", "[1.31] voltage ok">>
          [] c = "eth_link" -> <<"2", ":", " ", "e", "t", "h", "0", ":", " ", "<", "U", "P", ">", " ", "s", "t", "a", "t", "e", " ", "U", "P">>
          [] c = "eth_ip" -> <<"192.168.1.20">>
          [] c = "iwconfig" -> <<"w", "l", "a", "n", "0", " ", "E", "S", "S", "I", "D", ":", "\"", "h", "o", "m", "e", "\"", " ", "S", "i", "g", "n", "a", "l", " ", "l", "e", "v", "e", "l", "=", "-", "5", "2", " ", "d", "B", "m">>
          [] c = "route_gw" -> <<"192.168.1.1">>
          [] c = "ping_gw" -> <<"0">>
          [] c = "ping_inet" -> <<"0">>
          [] c = "nslookup" -> <<"0">>
          [] c = "ip_addr" -> <<"[ip addr show]">>
          [] c = "ip_route" -> <<"[ip route show]">>
          [] c = "net_dev" -> <<"[/proc/net/dev]">>
          [] c = "df" -> <<"[df -h]">>
          [] c = "lsblk" -> <<"[lsblk]">>
          [] c = "lsusb" -> <<"[lsusb]">>
          [] c = "mount" -> <<"[mount]">>
          [] c = "lsusb_grep" -> <<"Bus 002 Device 003: ID 18d1:9302 Coral Edge TPU">>
          [] c = "ls_i2c" -> <<"/", "d", "e", "v", "/", "i", "2", "c", "-", "1">>
          [] c = "i2cdetect" -> <<"[i2cdetect]">>
          [] c = "pinout" -> <<"[pinout]">>
          [] c = "ls_hwmon" -> <<"/sys/class/hwmon/hwmon0/power1_input">>
          [] c = "cat_power" -> <<"3", "5", "0", "0", "0", "0", "0">>
          [] c = "dmesg_crit" -> <<"[dmesg critical]">>
          [] c = "dmesg_net" -> <<"[dmesg network]">>
          [] c = "dmesg_pwr" -> <<"[dmesg power]">>
          [] c = "df_root" -> <<"12G used of 58G">>]

NA == <<"N", "/", "A">>

(***************************************************************************)
(* RPiDiagnostics.get_system_status: [exc, status, ran].  exc is where the *)
(* memory line raises IndexError, ValueError or ZeroDivisionError.         *)
(***************************************************************************)
\* a memory line parsed without looking whether `free` printed anything
MemoryUsage_Unguarded(mem_out) ==
    LET lines == SplitOn(mem_out, <<"\n">>)
        mem_line == SplitWs(lines[2])
        total == IF Len(mem_line) < 2 THEN [ok |-> FALSE, val |-> 0] ELSE ParseInt(mem_line[2])
        used == IF Len(mem_line) < 3 THEN [ok |-> FALSE, val |-> 0] ELSE ParseInt(mem_line[3])
    IN  IF Len(lines) <= 1 THEN [exc |-> TRUE, dict |-> EmptyDict]
        ELSE IF ~total.ok \/ ~used.ok \/ total.val = 0 THEN [exc |-> TRUE, dict |-> EmptyDict]
        ELSE [exc |-> FALSE,
              dict |-> "memory_usage" :>
                  (FormatFixed1(used.val * 100, total.val) \o <<"%", " ", "o", "f", " ">>
                     \o FormatFixed1(total.val, 1024 * 1024) \o <<"G", "B">>)]

MemoryUsage(mem_out) ==
    LET lines == SplitOn(mem_out, <<"\n">>)
        mem_line == SplitWs(lines[2])
        total == IF Len(mem_line) < 2 THEN [ok |-> FALSE, val |-> 0] ELSE ParseInt(mem_line[2])
        used == IF Len(mem_line) < 3 THEN [ok |-> FALSE, val |-> 0] ELSE ParseInt(mem_line[3])
    IN  IF mem_out = <<>> \/ Len(lines) <= 1 THEN [exc |-> FALSE, dict |-> EmptyDict]
        ELSE IF ~total.ok \/ ~used.ok \/ total.val = 0 THEN [exc |-> TRUE, dict |-> EmptyDict]
        ELSE [exc |-> FALSE,
              dict |-> "memory_usage" :>
                  (FormatFixed1(used.val * 100, total.val) \o <<"%", " ", "o", "f", " ">>
                     \o FormatFixed1(total.val, 1024 * 1024) \o <<"G", "B">>)]

Temperature(out) ==
    LET temp == out["measure_temp"]
        temp_file == out["thermal_zone"]
    IN  IF temp # <<>>
        THEN IF Contains(temp, <<"=">>) THEN SplitOn(temp, <<"=">>)[2] ELSE NA
        ELSE IF temp_file # <<>> /\ IsDigitStr(temp_file)
        THEN FormatFixed1(ParseInt(temp_file).val, 1000) \o <<"'", "C">>
        ELSE NA

get_system_status(out) ==
    LET uptime_out == out["uptime"]
        load == IF Contains(uptime_out, <<"l", "o", "a", "d", " ", "a", "v", "e", "r", "a", "g", "e", ":">>)
                THEN "load" :> Strip(SplitOn(uptime_out, <<"l", "o", "a", "d", " ", "a", "v", "e", "r", "a", "g", "e", ":">>)[2])
                ELSE EmptyDict
        mem == MemoryUsage(out["free"])
    IN  [exc |-> mem.exc,
         status |-> ("uptime" :> out["uptime_p"]) @@ load @@ mem.dict
                       @@ ("temperature" :> Temperature(out)),
         ran |-> IF mem.exc THEN {"uptime_p", "uptime", "free"}
                 ELSE {"uptime_p", "uptime", "free", "measure_temp"}
                        \cup (IF out["measure_temp"] = <<>> THEN {"thermal_zone"} ELSE {})]

(***************************************************************************)
(* RPiDiagnostics.get_power_status                                         *)
(***************************************************************************)
get_power_status(out) ==
    LET throttled == out["get_throttled"]
        volt(rail) == out[VoltCommand(rail)]
    IN  [power |->
            [throttled |-> IF throttled # <<>> THEN throttled ELSE NA,
             has_issues |-> IF throttled # <<>> THEN throttled # <<"t", "h", "r", "o", "t", "t", "l", "e", "d", "=", "0", "x", "0">> ELSE FALSE,
             voltages |-> [i \in 1..Len(Rails) |->
                 <<Rails[i],
                   IF volt(Rails[i]) # <<>> /\ Contains(volt(Rails[i]), <<"=">>)
                   THEN SplitOn(volt(Rails[i]), <<"=">>)[2] ELSE NA>>],
             recent_events |-> IF out["dmesg_power"] # <<>>
                               THEN SplitOn(out["dmesg_power"], <<"\n">>) ELSE <<>>],
         ran |-> PowerCommands]

(***************************************************************************)
(* RPiDiagnostics.get_network_status                                       *)
(***************************************************************************)
\* re.search(r'ESSID:"([^"]*)"', s): [found, group]
SsidMatch(s) ==
    LET i == IndexOf(s, <<"E", "S", "S", "I", "D", ":", "\"">>)
        rest == SubSeq(s, i + 7, Len(s))
        j == IndexOf(rest, <<"\"">>)
    IN  IF i = 0 \/ j = 0 THEN [found |-> FALSE, group |-> <<>>]
        ELSE [found |-> TRUE, group |-> SubSeq(rest, 1, j - 1)]

\* re.search(r'Signal level=([^\s]*)', s): [found, group]
SignalMatch(s) ==
    LET i == IndexOf(s, <<"S", "i", "g", "n", "a", "l", " ", "l", "e", "v", "e", "l", "=">>)
        rest == SubSeq(s, i + 13, Len(s))
        ws == {k \in 1..Len(rest) : rest[k] \in Whitespace}
        e == IF ws = {} THEN Len(rest) + 1 ELSE CHOOSE k \in ws : \A m \in ws : k <= m
    IN  IF i = 0 THEN [found |-> FALSE, group |-> <<>>]
        ELSE [found |-> TRUE, group |-> SubSeq(rest, 1, e - 1)]

get_network_status(hardware_info, out) ==
    LET eth_up == Contains(out["eth_link"], <<"s", "t", "a", "t", "e", " ", "U", "P">>)
        ethernet ==
            IF ~hardware_info.has_ethernet THEN EmptyDict
            ELSE "ethernet" :>
                   (("status" :> IF eth_up THEN <<"C", "o", "n", "n", "e", "c", "t", "e", "d">> ELSE <<"D", "i", "s", "c", "o", "n", "n", "e", "c", "t", "e", "d">>)
                    @@ (IF eth_up
                        THEN "ip" :> (IF out["eth_ip"] # <<>> THEN out["eth_ip"] ELSE <<"N", "o", " ", "I", "P">>)
                        ELSE EmptyDict))
        wifi_info == out["iwconfig"]
        wifi_connected == Contains(wifi_info, <<"E", "S", "S", "I", "D">>) /\ ~Contains(wifi_info, <<"N", "o", "t", "-", "A", "s", "s", "o", "c", "i", "a", "t", "e", "d">>)
        wifi ==
            IF ~hardware_info.has_wifi THEN EmptyDict
            ELSE "wifi" :>
                   (("status" :> IF wifi_connected THEN <<"C", "o", "n", "n", "e", "c", "t", "e", "d">> ELSE <<"D", "i", "s", "c", "o", "n", "n", "e", "c", "t", "e", "d">>)
                    @@ (IF wifi_connected /\ SsidMatch(wifi_info).found
                        THEN "ssid" :> SsidMatch(wifi_info).group ELSE EmptyDict)
                    @@ (IF wifi_connected /\ SignalMatch(wifi_info).found
                        THEN "signal" :> SignalMatch(wifi_info).group ELSE EmptyDict))
        gateway == out["route_gw"]
    IN  [network |->
            ethernet @@ wifi
            @@ [gateway_reachable |-> gateway # <<>> /\ out["ping_gw"] = <<"0">>,
                internet_reachable |-> out["ping_inet"] = <<"0">>,
                dns_working |-> out["nslookup"] = <<"0">>,
                interfaces |-> out["ip_addr"],
                routes |-> out["ip_route"],
                stats |-> out["net_dev"]],
         ran |-> (IF hardware_info.has_ethernet
                  THEN {"eth_link"} \cup (IF eth_up THEN {"eth_ip"} ELSE {}) ELSE {})
                 \cup (IF hardware_info.has_wifi THEN {"iwconfig"} ELSE {})
                 \cup {"route_gw", "ping_inet", "nslookup", "ip_addr", "ip_route", "net_dev"}
                 \cup (IF gateway # <<>> THEN {"ping_gw"} ELSE {})]

(***************************************************************************)
(* RPiDiagnostics.get_storage_info, get_ai_hat_info, get_system_logs       *)
(***************************************************************************)
get_storage_info(out) ==
    [storage |-> [disk_usage |-> out["df"], block_devices |-> out["lsblk"],
                  usb_devices |-> out["lsusb"], mounts |-> out["mount"]],
     ran |-> StorageCommands]

\* f"{num/den:.2f}"
FormatFixed2(num, den) ==
    LET t == RoundHalfEven(100 * num, den)
    IN  IntToStr(t \div 100) \o <<".">> \o IntToStr((t \div 10) % 10) \o IntToStr(t % 10)

\* '\n'.join(parts)
RECURSIVE JoinLines(_)
JoinLines(parts) ==
    IF parts = <<>> THEN <<>>
    ELSE IF Len(parts) = 1 THEN parts[1]
    ELSE parts[1] \o <<"\n">> \o JoinLines(Tail(parts))

get_ai_hat_info(hardware_info, out) ==
    LET i2c_buses == SplitWs(out["ls_i2c"])
        bus_num(bus) == LET p == SplitOn(bus, <<"-">>) IN p[Len(p)]
        i2c_info == IF out["i2cdetect"] = <<>> THEN <<>>
                    ELSE [k \in 1..Len(i2c_buses) |->
                            <<"B", "u", "s", " ">> \o bus_num(i2c_buses[k]) \o <<":", "\n">> \o out["i2cdetect"]]
        power_files == SplitWs(out["ls_hwmon"])
        power_uw == out["cat_power"]
        measured == power_files # <<>> /\ power_uw # <<>> /\ IsDigitStr(power_uw)
    IN  IF ~hardware_info.has_ai_hat THEN [ai_info |-> EmptyDict, ran |-> {}]
        ELSE [ai_info |->
                [usb_neural |-> IF out["lsusb_grep"] # <<>> THEN out["lsusb_grep"]
                                ELSE <<"N", "o", " ", "U", "S", "B", " ", "n", "e", "u", "r", "a", "l", " ", "d", "e", "v", "i", "c", "e", "s", " ", "f", "o", "u", "n", "d">>,
                 i2c_devices |-> IF i2c_info # <<>> THEN JoinLines(i2c_info)
                                 ELSE <<"N", "o", " ", "I", "2", "C", " ", "d", "e", "v", "i", "c", "e", "s", " ", "f", "o", "u", "n", "d">>,
                 gpio_info |-> IF out["pinout"] # <<>> THEN out["pinout"]
                               ELSE <<"G", "P", "I", "O", " ", "i", "n", "f", "o", " ", "n", "o", "t", " ", "a", "v", "a", "i", "l", "a", "b", "l", "e">>,
                 power_draw |-> IF measured
                                THEN FormatFixed2(ParseInt(power_uw).val, 1000000) \o <<"W">>
                                ELSE <<"P", "o", "w", "e", "r", " ", "m", "o", "n", "i", "t", "o", "r", "i", "n", "g", " ", "n", "o", "t", " ", "a", "v", "a", "i", "l", "a", "b", "l", "e">>],
              ran |-> {"lsusb_grep", "ls_i2c", "pinout", "ls_hwmon"}
                      \cup (IF i2c_buses # <<>> THEN {"i2cdetect"} ELSE {})
                      \cup (IF power_files # <<>> THEN {"cat_power"} ELSE {})]

get_system_logs(out) ==
    [logs |->
        [critical_events |-> IF out["dmesg_crit"] # <<>> THEN out["dmesg_crit"]
                             ELSE <<"N", "o", " ", "c", "r", "i", "t", "i", "c", "a", "l", " ", "e", "v", "e", "n", "t", "s", " ", "f", "o", "u", "n", "d">>,
         network_events |-> IF out["dmesg_net"] # <<>> THEN out["dmesg_net"]
                            ELSE <<"N", "o", " ", "n", "e", "t", "w", "o", "r", "k", " ", "e", "v", "e", "n", "t", "s", " ", "f", "o", "u", "n", "d">>,
         power_events |-> IF out["dmesg_pwr"] # <<>> THEN out["dmesg_pwr"]
                          ELSE <<"N", "o", " ", "p", "o", "w", "e", "r", "/", "t", "h", "e", "r", "m", "a", "l", " ", "e", "v", "e", "n", "t", "s", " ", "f", "o", "u", "n", "d">>],
     ran |-> LogCommands]

(***************************************************************************)
(* RPiDiagnostics.generate_html_report: the document as the sequence of    *)
(* its parts, in the order the code appends them.  Each part has a name,   *)
(* the CSS class the code computes for it and the values it displays.      *)
(***************************************************************************)
El(sec, class, vals) == [sec |-> sec, class |-> class, vals |-> vals]

\* the character the cooling card splits the temperature on before "'"
DegreeSign == <<"deg">>

WarnAbove == 70
ErrorAbove == 80

\* a cooling card whose thresholds are inclusive
CoolingClass_Inclusive(temp) ==
    LET digits == \E i \in 1..Len(temp) : temp[i] \in Digits
        text == FilterChars(SplitOn(SplitOn(temp, DegreeSign)[1], <<"'">>)[1],
                            Digits \cup {"."})
        temp_val == ParseFloat(text)
    IN  IF temp # NA /\ digits /\ temp_val.ok
        THEN IF temp_val.num >= ErrorAbove * temp_val.den THEN "error"
             ELSE IF temp_val.num >= WarnAbove * temp_val.den THEN "warning"
             ELSE "success"
        ELSE "success"

\* the class of the cooling card
CoolingClass(temp) ==
    LET digits == \E i \in 1..Len(temp) : temp[i] \in Digits
        text == FilterChars(SplitOn(SplitOn(temp, DegreeSign)[1], <<"'">>)[1],
                            Digits \cup {"."})
        temp_val == ParseFloat(text)
    IN  IF temp # NA /\ digits /\ temp_val.ok
        THEN IF temp_val.num > ErrorAbove * temp_val.den THEN "error"
             ELSE IF temp_val.num > WarnAbove * temp_val.den THEN "warning"
             ELSE "success"
        ELSE "success"

\* rules that give the AI HAT power item to every board with an AI HAT
Recommendations_FlatRules(hardware_info) ==
    (IF Contains(hardware_info.model, <<"P", "i", " ", "5">>) THEN <<"Pi 5 Power">> ELSE <<>>)
    \o (IF hardware_info.has_ai_hat
        THEN <<"AI HAT Power", "AI HAT Cooling", "AI HAT Performance">> ELSE <<>>)
    \o (IF hardware_info.has_wifi /\ hardware_info.has_ethernet
        THEN <<"Dual Network">> ELSE <<>>)
    \o (IF hardware_info.has_cooling THEN <<"Active Cooling">> ELSE <<>>)

\* the items of the Recommendations section
Recommendations(hardware_info) ==
    (IF Contains(hardware_info.model, <<"P", "i", " ", "5">>)
     THEN <<"Pi 5 Power">> \o (IF hardware_info.has_ai_hat THEN <<"AI HAT Power">> ELSE <<>>)
     ELSE <<>>)
    \o (IF hardware_info.has_ai_hat THEN <<"AI HAT Cooling", "AI HAT Performance">> ELSE <<>>)
    \o (IF hardware_info.has_wifi /\ hardware_info.has_ethernet
        THEN <<"Dual Network">> ELSE <<>>)
    \o (IF hardware_info.has_cooling THEN <<"Active Cooling">> ELSE <<>>)

\* a report that renders the AI HAT section on every board
AiHatSection_Always(hardware_info, ai_info) ==
    <<El("ai-hat-diagnostics", "", ai_info)>>

\* the AI HAT section, rendered only if the profile flags the AI HAT
AiHatSection(hardware_info, ai_info) ==
    IF hardware_info.has_ai_hat
    THEN <<El("ai-hat-diagnostics", "", ai_info)>> ELSE <<>>

\* a footer that stamps the closing part of the document too
Footer_StampedClose(time) ==
    <<El("timestamp", "", "generated" :> time),
      El("html-close", "", "generated" :> time)>>

\* the footer with datetime.now(), and the end of the document
Footer(time) ==
    <<El("timestamp", "", "generated" :> time),
      El("html-close", "", EmptyDict)>>

\* the document built from the collected data; storage_usage is the output of
\* the df command the storage card runs
Render(hardware_info, system_status, power_status, network_status, storage_info, ai_info, logs, df_root, time) ==
    LET ethernet == Get(network_status, "ethernet", EmptyDict)
        eth_status == Get(ethernet, "status", <<"U", "n", "k", "n", "o", "w", "n">>)
        eth_ip == Get(ethernet, "ip", <<>>)
        wifi == Get(network_status, "wifi", EmptyDict)
        wifi_status == Get(wifi, "status", <<"U", "n", "k", "n", "o", "w", "n">>)
        temp == Get(system_status, "temperature", NA)
        storage_usage == IF df_root # <<>> THEN df_root ELSE <<"S", "t", "o", "r", "a", "g", "e", " ", "i", "n", "f", "o", " ", "u", "n", "a", "v", "a", "i", "l", "a", "b", "l", "e">>
        ok == ~power_status.has_issues
        reach(key, yes, no) == IF network_status[key] THEN yes ELSE no
    IN  <<El("doctype", "", EmptyDict),
          El("head", "", EmptyDict),
          El("header", "", EmptyDict),
          El("system-card", "success",
             [model |-> hardware_info.model, memory |-> hardware_info.memory,
              revision |-> hardware_info.revision])>>
        \o (IF hardware_info.has_ethernet
            THEN <<El("ethernet-card",
                      IF eth_status = <<"C", "o", "n", "n", "e", "c", "t", "e", "d">> THEN "success" ELSE "warning",
                      ("status" :> eth_status)
                      @@ (IF eth_ip # <<>> /\ eth_ip # <<"N", "o", " ", "I", "P">>
                          THEN "ip" :> eth_ip ELSE EmptyDict))>>
            ELSE <<>>)
        \o (IF hardware_info.has_wifi
            THEN <<El("wifi-card",
                      IF wifi_status = <<"C", "o", "n", "n", "e", "c", "t", "e", "d">> THEN "success" ELSE "warning",
                      ("status" :> wifi_status)
                      @@ (IF Get(wifi, "ssid", <<>>) # <<>>
                          THEN "ssid" :> wifi["ssid"] ELSE EmptyDict)
                      @@ (IF Get(wifi, "signal", <<>>) # <<>>
                          THEN "signal" :> wifi["signal"] ELSE EmptyDict))>>
            ELSE <<>>)
        \o (IF hardware_info.has_ai_hat
            THEN <<El("ai-hat-card", "available", EmptyDict)>> ELSE <<>>)
        \o (IF hardware_info.has_cooling
            THEN <<El("cooling-card", CoolingClass(temp), "temperature" :> temp)>>
            ELSE <<>>)
        \o <<El("storage-card", "available", "storage_usage" :> storage_usage),
             El("system-status", "",
                [uptime |-> Get(system_status, "uptime", NA),
                 load |-> Get(system_status, "load", NA),
                 memory_usage |-> Get(system_status, "memory_usage", NA),
                 temperature |-> Get(system_status, "temperature", NA)]),
             El("power-supply", IF ok THEN "status-good" ELSE "status-error",
                [message |-> IF ok THEN "No power issues detected"
                             ELSE "Power/thermal throttling detected!",
                 voltages |-> power_status.voltages,
                 throttled |-> power_status.throttled,
                 recent_events |-> JoinLines(power_status.recent_events)])>>
        \o AiHatSection(hardware_info, ai_info)
        \o <<El("network-diagnostics", "",
                [gateway |-> reach("gateway_reachable", "success", "error"),
                 internet |-> reach("internet_reachable", "success", "error"),
                 dns |-> reach("dns_working", "success", "error"),
                 interfaces |-> network_status.interfaces,
                 routes |-> network_status.routes,
                 stats |-> network_status.stats]),
             El("storage-usb", "", storage_info),
             El("system-logs", "display-none", logs),
             El("recommendations", "", "items" :> Recommendations(hardware_info))>>
        \o Footer(time)

\* the one element of a one-element set
Only(S) == CHOOSE x \in S : TRUE

\* [exc, doc, ran]: exc where get_system_status raises; the data is collected
\* once, in the order of the code, and then rendered
generate_html_report(hardware_info, out, time) ==
    Only({ IF sys.exc THEN [exc |-> TRUE, doc |-> <<>>, ran |-> sys.ran]
           ELSE [exc |-> FALSE,
                 doc |-> Render(hardware_info, sys.status, pow.power, net.network,
                                sto.storage, ai.ai_info, log.logs, out["df_root"], time),
                 ran |-> sys.ran \cup pow.ran \cup net.ran \cup sto.ran \cup ai.ran
                           \cup log.ran \cup CardCommands] :
           sys \in {get_system_status(out)},
           pow \in {get_power_status(out)},
           net \in {get_network_status(hardware_info, out)},
           sto \in {get_storage_info(out)},
           ai \in {get_ai_hat_info(hardware_info, out)},
           log \in {get_system_logs(out)} })

(***************************************************************************)
(* The inputs the model draws: which commands fail and what the others     *)
(* print.                                                                  *)
(***************************************************************************)
NoVariant == EmptyDict

\* commands that fail together in the larger failure injections at startup
BootGroups ==
    {{"cpuinfo", "meminfo"}, {"ip_wlan"}, {"ip_eth"}, {"lsusb_detect", "ls_i2c_detect"},
     {"find_fan", "fancontrol", "pgrep_fan"}}

\* every union of groups, every single command, and all commands but one
BootFailSets ==
    {UNION gs : gs \in SUBSET BootGroups}
        \cup {{c} : c \in BootCommands}
        \cup {BootCommands \ {c} : c \in BootCommands}

\* at startup: commands failing on the equipped board, or a variant output
\* with no command failing
BootInputs ==
    {<<failed, NoVariant>> : failed \in BootFailSets}
        \cup {<<{}, variant>> : variant \in BootVariants}

\* commands that fail together in the larger failure injections
ReportGroups ==
    {{"uptime_p", "uptime", "free"}, {"measure_temp"}, {"thermal_zone"},
     PowerCommands, NetworkCommands,
     AiHatCommands \cup StorageCommands \cup LogCommands \cup CardCommands}

\* every union of groups, every single command, and all commands but one
ReportFailSets ==
    {UNION gs : gs \in SUBSET ReportGroups}
        \cup {{c} : c \in ReportCommands}
        \cup {ReportCommands \ {c} : c \in ReportCommands}

\* well-formed outputs of a board in another condition
WellFormedVariants ==
    { ("measure_temp" :> <<"t", "e", "m", "p", "=", "7", "0", ".", "0", "'", "C">>),
      ("measure_temp" :> <<"t", "e", "m", "p", "=", "7", "0", ".", "1", "'", "C">>),
      ("measure_temp" :> <<"t", "e", "m", "p", "=", "8", "0", ".", "0", "'", "C">>),
      ("measure_temp" :> <<"t", "e", "m", "p", "=", "8", "0", ".", "1", "'", "C">>),
      ("measure_temp" :> <<"t", "e", "m", "p", "=", "8", "5", ".", "0", "'", "C">>),
      ("get_throttled" :> <<"t", "h", "r", "o", "t", "t", "l", "e", "d", "=", "0", "x", "5", "0", "0", "0", "5">>),
      ("free" :> <<"t", "o", "t", "a", "l", " ", "u", "s", "e", "d", " ", "f", "r", "e", "e">>),
      ("uptime" :> <<"1", "0", ":", "1", "4", " ", "u", "p", " ", "3", " ", "d", "a", "y", "s">>),
      ("eth_link" :> <<"2", ":", " ", "e", "t", "h", "0", ":", " ", "<", "D", "O", "W", "N", ">", " ", "s", "t", "a", "t", "e", " ", "D", "O", "W", "N">>),
      ("iwconfig" :> <<"w", "l", "a", "n", "0", " ", "E", "S", "S", "I", "D", ":", "o", "f", "f", "/", "a", "n", "y", " ", "A", "c", "c", "e", "s", "s", " ", "P", "o", "i", "n", "t", ":", " ", "N", "o", "t", "-", "A", "s", "s", "o", "c", "i", "a", "t", "e", "d">>),
      ("ping_gw" :> <<"1">>) }

\* outputs that lack what the code looks for
MalformedVariants ==
    { ("free" :> <<"t", "o", "t", "a", "l", " ", "u", "s", "e", "d", " ", "f", "r", "e", "e", "\n", "M", "e", "m", ":">>),
      ("free" :> <<"t", "o", "t", "a", "l", " ", "u", "s", "e", "d", " ", "f", "r", "e", "e", "\n", "M", "e", "m", ":", " ", "8", "2", "4", "5", "0", "3", "2">>),
      ("free" :> <<"t", "o", "t", "a", "l", " ", "u", "s", "e", "d", " ", "f", "r", "e", "e", "\n", "M", "e", "m", ":", " ", "n", "/", "a", " ", "n", "/", "a", " ", "n", "/", "a">>),
      ("free" :> <<"t", "o", "t", "a", "l", " ", "u", "s", "e", "d", " ", "f", "r", "e", "e", "\n", "M", "e", "m", ":", " ", "0", " ", "0", " ", "0">>),
      ("measure_temp" :> <<"V", "C", "H", "I", " ", "i", "n", "i", "t", "i", "a", "l", "i", "z", "a", "t", "i", "o", "n", " ", "f", "a", "i", "l", "e", "d">>),
      ("measure_temp" :> <<"t", "e", "m", "p", "=", "4", ".", "5", ".", "2", "'", "C">>),
      ("volts_core" :> <<"b", "a", "d", " ", "a", "r", "g", "u", "m", "e", "n", "t">>),
      ("cat_power" :> <<"n", "/", "a">>) }

\* the readings of /sys/class/thermal/thermal_zone0/temp, which is read only
\* when vcgencmd prints nothing
ThermalVariants ==
    { ("thermal_zone" :> <<"7", "0", "0", "0", "0">>),
      ("thermal_zone" :> <<"7", "0", "1", "0", "0">>),
      ("thermal_zone" :> <<"8", "0", "1", "0", "0">>),
      ("thermal_zone" :> <<"n", "/", "a">>) }

ReportInputs ==
    {<<failed, NoVariant>> : failed \in ReportFailSets}
        \cup {<<{}, variant>> : variant \in WellFormedVariants \cup MalformedVariants}
        \cup {<<{"measure_temp"}, variant>> : variant \in ThermalVariants}

\* the board with everything detected, on which every command of a report runs
FullBoard ==
    [model |-> <<"R", "a", "s", "p", "b", "e", "r", "r", "y", " ", "P", "i", " ", "5">>, revision |-> <<"d", "0", "4", "1", "7", "0">>, memory |-> <<"8", " ", "G", "B">>,
     has_wifi |-> TRUE, has_ethernet |-> TRUE, has_ai_hat |-> TRUE, has_cooling |-> TRUE]

\* the whole failure injection runs on the full board; on the other boards the
\* inputs are no failure, every command failing, and the variants
ReportInputsFor(info) ==
    IF info = FullBoard THEN ReportInputs
    ELSE {input \in ReportInputs : input[1] \in {{}, {"measure_temp"}, ReportCommands}}

\* the failure kinds worth telling apart for an input
KindsOf(failed) == IF Cardinality(failed) = 1 THEN FailKinds ELSE {"timeout"}

\* the largest clock value the model reaches
MaxClock == 1

(***************************************************************************)
(* State of the Python diagnostics server.                                 *)
(***************************************************************************)
VARIABLES
    main_pc,        \* where main() is: "start", "detected", "bound", "serving", "exited"
    exit_cause,     \* why the process ended: "none", "exception", "port_in_use", "signal"
    swallowed,      \* a signal was delivered and a bare except: caught what it raised
    boot,           \* what the commands of detect_hardware returned
    hardware_info,  \* RPiDiagnostics.hardware_info
    handler_pc,     \* where do_GET is: "idle", "report", "status"
    request,        \* the request being handled, or the last one handled
    response,       \* what has been written to the client for it
    now             \* the wall clock

diag_vars ==
    <<main_pc, exit_cause, swallowed, boot, hardware_info, handler_pc, request, response, now>>

(***************************************************************************)
(* State of the exporter (SimpleAIHatMonitor).                             *)
(***************************************************************************)
VARIABLES
    mon_pc,           \* where run() is: "init", "read_temp", "set_cpu", "set_ai", "detect",
                      \* "set_detected", "sleep", "backoff", "stopped", "crashed"
    cpu_temp,         \* the gauge cpu_temperature_celsius
    ai_hat_temp,      \* the gauge ai_hat_temperature_celsius
    ai_hat_detected,  \* the gauge ai_hat_detected
    poll,             \* the current poll: what the probes returned and the locals
    mon_log,          \* the messages logged since the current poll began
    slept,            \* the seconds of the last completed sleep, 0 before the first
    stop_path         \* how run() ended: "", "shutting_down", "traceback"

mon_vars ==
    <<mon_pc, cpu_temp, ai_hat_temp, ai_hat_detected, poll, mon_log, slept, stop_path>>

(***************************************************************************)
(* State of the shell variant (pihole-config-report.py: a bash script that *)
(* writes the report to a file in /tmp and a Python server that serves it).*)
(***************************************************************************)
VARIABLES
    sh_pc,            \* where main() is: "start", "generated", "serving", "exited"
    sh_files,         \* the files below /tmp: name -> [ctime, kind, profile, doc]
    sh_request,       \* the request handled last
    sh_response,      \* the response to it
    sh_refreshed,     \* when the last GET /refresh arrived, -1 before the first
    sh_env            \* what the machine was like when the latest report was made

sh_vars == <<sh_pc, sh_files, sh_request, sh_response, sh_refreshed, sh_env>>

vars == <<diag_vars, mon_vars, sh_vars>>

\* The three programs are separate processes that share nothing but the
\* clock: a behaviour follows one of them, the others stay as constructed.

NoBoot == [failed |-> {}, variant |-> NoVariant]
NoRequest ==
    [path |-> "", at |-> 0, probed |-> FALSE, failed |-> {}, variant |-> NoVariant,
     ran |-> {}, raised |-> FALSE, overlapped |-> FALSE]
NoResponse == [status |-> 0, headers |-> {}, body |-> <<>>, complete |-> FALSE]

Paths == {"/", "/index.html", "/refresh", "/api/status", "/favicon.ico", "/?t=1"}

ReportHeaders ==
    {<<"Content-type", "text/html">>,
     <<"Cache-Control", "no-cache, no-store, must-revalidate">>,
     <<"Pragma", "no-cache">>, <<"Expires", "0">>}

DiagInit ==
    /\ main_pc = "start"
    /\ exit_cause = "none"
    /\ swallowed = FALSE
    /\ boot = NoBoot
    /\ hardware_info = DefaultInfo
    /\ handler_pc = "idle"
    /\ request = NoRequest
    /\ response = NoResponse
    /\ now = 0

\* main: RPiDiagnostics() runs detect_hardware; an exception it raises is not
\* caught and ends the process
Detect ==
    /\ main_pc = "start"
    /\ mon_pc = "init" /\ sh_pc = "start"
    /\ \E input \in BootInputs : \E kind \in KindsOf(input[1]) :
          \E found \in {detect_hardware(Outputs(input[1], kind, input[2], BootBase))} :
              /\ boot' = [failed |-> input[1], variant |-> input[2]]
              /\ IF found.exc
                 THEN /\ main_pc' = "exited"
                      /\ exit_cause' = "exception"
                      /\ UNCHANGED hardware_info
                 ELSE /\ main_pc' = "detected"
                      /\ hardware_info' = found.info
                      /\ UNCHANGED exit_cause
    /\ UNCHANGED <<swallowed, handler_pc, request, response, now, mon_vars, sh_vars>>

\* main: create_server binds the port; OSError (address already in use) is not
\* caught and ends the process
CreateServer ==
    /\ main_pc = "detected"
    /\ \E in_use \in BOOLEAN :
          IF in_use
          THEN main_pc' = "exited" /\ exit_cause' = "port_in_use"
          ELSE main_pc' = "bound" /\ UNCHANGED exit_cause
    /\ boot' = NoBoot
    /\ UNCHANGED <<swallowed, hardware_info, handler_pc, request, response, now, mon_vars, sh_vars>>

\* main: the addresses are printed inside try/except, then serve_forever.
\* subprocess.run(['hostname', '-I'], capture_output=True, text=True) is given
\* no timeout: it returns, or raises inside the try, unless the command hangs,
\* and then main() is blocked before serve_forever
Announce ==
    /\ main_pc = "bound"
    /\ \E outcome \in {"prints", "fails", "raises", "hangs"} :
          main_pc' = IF outcome = "hangs" THEN "blocked" ELSE "serving"
    /\ UNCHANGED <<exit_cause, swallowed, boot, hardware_info, handler_pc, request, response, now, mon_vars, sh_vars>>

\* a handler that serves the report on every path it does not know
do_GET_headers_CatchAll(path) ==
    IF path = "/refresh"
    THEN [status |-> 302, headers |-> {<<"Location", "/">>}, body |-> <<>>, complete |-> TRUE]
    ELSE IF path = "/api/status"
    THEN [status |-> 200, headers |-> {<<"Content-type", "application/json">>},
          body |-> <<>>, complete |-> FALSE]
    ELSE [status |-> 200, headers |-> ReportHeaders, body |-> <<>>, complete |-> FALSE]

\* do_GET up to the end of the headers (for /refresh and unknown paths: all of it)
do_GET_headers(path) ==
    IF path \in {"/", "/index.html"}
    THEN [status |-> 200, headers |-> ReportHeaders, body |-> <<>>, complete |-> FALSE]
    ELSE IF path = "/refresh"
    THEN [status |-> 302, headers |-> {<<"Location", "/">>}, body |-> <<>>, complete |-> TRUE]
    ELSE IF path = "/api/status"
    THEN [status |-> 200, headers |-> {<<"Content-type", "application/json">>},
          body |-> <<>>, complete |-> FALSE]
    ELSE [status |-> 404, headers |-> {<<"Content-Type", "text/html;charset=utf-8">>},
          body |-> <<El("error", "", "message" :> "File not found")>>, complete |-> TRUE]

\* a handler whose /refresh regenerates the report before it redirects
do_GET_next_RefreshRegenerates(path) ==
    IF path \in {"/", "/index.html", "/refresh"} THEN "report"
    ELSE IF path = "/api/status" THEN "status"
    ELSE "idle"

\* where do_GET continues after the headers
do_GET_next(path) ==
    IF path \in {"/", "/index.html"} THEN "report"
    ELSE IF path = "/api/status" THEN "status"
    ELSE "idle"

\* a server that hands every connection to a new thread (ThreadingHTTPServer)
CanAccept_Threading(pc) == TRUE

\* create_server returns an HTTPServer: serve_forever accepts the next
\* connection only after the handler of the last one has returned
CanAccept(pc) == pc = "idle"

BeginGet ==
    /\ main_pc = "serving"
    /\ CanAccept(handler_pc)
    /\ \E path \in Paths :
          /\ request' = [NoRequest EXCEPT !.path = path, !.at = now,
                                          !.overlapped = handler_pc # "idle"]
          /\ response' = do_GET_headers(path)
          /\ handler_pc' = do_GET_next(path)
    /\ UNCHANGED <<main_pc, exit_cause, swallowed, boot, hardware_info, now, mon_vars, sh_vars>>

\* a handler that looks for the WiFi interface again in every request
ProfileAfterRequest_Redetects(info, out) ==
    [info EXCEPT !.has_wifi = out["iwconfig"] # <<>>]

\* the profile after a request: the handlers and the methods they call read
\* self.hardware_info and never assign it
ProfileAfterRequest(info, out) == info

\* do_GET for / : generate_html_report and the write of the body.  An exception
\* leaves the response as it is; socketserver reports it and serves on.
FinishReport ==
    /\ main_pc = "serving"
    /\ handler_pc = "report"
    /\ \E input \in ReportInputsFor(hardware_info) : \E kind \in KindsOf(input[1]) :
          \E out \in {Outputs(input[1], kind, input[2], ReportBase)} :
          \E report \in {generate_html_report(hardware_info, out, now)} :
              /\ request' = [request EXCEPT !.probed = TRUE, !.failed = input[1],
                                            !.variant = input[2], !.ran = report.ran,
                                            !.raised = report.exc]
              /\ response' = IF report.exc THEN response
                             ELSE [response EXCEPT !.body = report.doc, !.complete = TRUE]
              /\ hardware_info' = ProfileAfterRequest(hardware_info, out)
    /\ handler_pc' = "idle"
    /\ UNCHANGED <<main_pc, exit_cause, swallowed, boot, now, mon_vars, sh_vars>>

\* the status_data dict of /api/status; the three calls are made in this order
status_data(info, out, time) ==
    Only({ IF sys.exc THEN [exc |-> TRUE, data |-> EmptyDict, ran |-> sys.ran]
           ELSE [exc |-> FALSE,
                 data |-> [hardware |-> info, system |-> sys.status,
                           network |-> net.network, power |-> pow.power,
                           timestamp |-> time],
                 ran |-> sys.ran \cup net.ran \cup pow.ran] :
           sys \in {get_system_status(out)},
           net \in {get_network_status(info, out)},
           pow \in {get_power_status(out)} })

\* the inputs that differ in a command of the status endpoint
StatusInputsFor(info) ==
    {input \in ReportInputsFor(info) :
        input[1] \subseteq StatusCommands \/ input[1] = ReportCommands}

FinishStatus ==
    /\ main_pc = "serving"
    /\ handler_pc = "status"
    /\ \E input \in StatusInputsFor(hardware_info) : \E kind \in KindsOf(input[1]) :
          \E out \in {Outputs(input[1], kind, input[2], ReportBase)} :
          \E status \in {status_data(hardware_info, out, now)} :
              /\ request' = [request EXCEPT !.probed = TRUE, !.failed = input[1],
                                            !.variant = input[2], !.ran = status.ran,
                                            !.raised = status.exc]
              /\ response' = IF status.exc THEN response
                             ELSE [response EXCEPT !.body = <<status.data>>,
                                                   !.complete = TRUE]
              /\ hardware_info' = ProfileAfterRequest(hardware_info, out)
    /\ handler_pc' = "idle"
    /\ UNCHANGED <<main_pc, exit_cause, swallowed, boot, now, mon_vars, sh_vars>>

\* where a signal can find the main thread.  signal_handler calls sys.exit(0),
\* which raises SystemExit there: inside the try block of run_command (a
\* request waits for its commands in it) or of the banner of main() the bare
\* except: catches it and the program goes on; anywhere else it ends the
\* process
SignalOutcomes(main, handler) ==
    IF handler \in {"report", "status"} \/ main = "bound"
    THEN {"exits", "caught"} ELSE {"exits"}

\* SIGINT or SIGTERM.  When the process ends, what it held in memory is gone; a
\* response that was being written stays as far as it got.
Signal ==
    /\ main_pc # "exited"
    /\ mon_pc = "init" /\ sh_pc = "start"
    /\ \E outcome \in SignalOutcomes(main_pc, handler_pc) :
          IF outcome = "exits"
          THEN /\ main_pc' = "exited"
               /\ exit_cause' = "signal"
               /\ boot' = NoBoot
               /\ hardware_info' = DefaultInfo
               /\ request' = IF handler_pc = "idle" THEN NoRequest ELSE request
               /\ response' = IF handler_pc = "idle" THEN NoResponse ELSE response
               /\ UNCHANGED swallowed
          ELSE /\ swallowed' = TRUE
               /\ UNCHANGED <<main_pc, exit_cause, boot, hardware_info, request, response>>
    /\ UNCHANGED <<handler_pc, now, mon_vars, sh_vars>>

\* time passes while one of the programs runs
Tick ==
    /\ now < MaxClock
    /\ (main_pc # "start" \/ sh_pc # "start")
    /\ now' = now + 1
    /\ UNCHANGED <<main_pc, exit_cause, swallowed, boot, hardware_info, handler_pc, request, response, mon_vars, sh_vars>>

DiagNext ==
    \/ Detect \/ CreateServer \/ Announce
    \/ BeginGet \/ FinishReport \/ FinishStatus
    \/ Signal \/ Tick

(***************************************************************************)
(* The exporter: src/svc/monitoring/ai-hat-monitor.py                      *)
(***************************************************************************)
\* what subprocess.run gives for a command run without a shell: an exception
\* for a missing command or a timeout, a return code and stdout otherwise
Raised == [raised |-> TRUE, returncode |-> 0, stdout |-> <<>>]
Ran(returncode, stdout) == [raised |-> FALSE, returncode |-> returncode, stdout |-> stdout]
NotRun == [raised |-> FALSE, returncode |-> 0, stdout |-> <<"not run">>]

VcgencmdResults ==
    {Raised,
     Ran(1, <<>>),
     Ran(0, <<"t", "e", "m", "p", "=", "4", "5", ".", "2", "'", "C", "\n">>),
     Ran(0, <<"t", "e", "m", "p", "=", "7", "1", ".", "5", "'", "C", "\n">>),
     Ran(0, <<"t", "e", "m", "p", "=", "0", ".", "0", "'", "C", "\n">>),
     Ran(0, <<"t", "e", "m", "p", "=", "0", "'", "C", "\n">>),
     Ran(0, <<"V", "C", "H", "I", " ", "i", "n", "i", "t", "i", "a", "l", "i", "z", "a", "t", "i", "o", "n", " ", "f", "a", "i", "l", "e", "d", "\n">>)}

LsmodResults ==
    {Raised,
     Ran(1, <<>>),
     Ran(0, <<"M", "o", "d", "u", "l", "e", " ", "S", "i", "z", "e", " ", "U", "s", "e", "d", " ", "b", "y", "\n", "h", "a", "i", "l", "o", "_", "p", "c", "i", " ", "9", "4", "2", "0", "8", " ", "0", "\n">>),
     Ran(0, <<"M", "o", "d", "u", "l", "e", " ", "S", "i", "z", "e", " ", "U", "s", "e", "d", " ", "b", "y", "\n", "b", "r", "c", "m", "f", "m", "a", "c", " ", "1", " ", "0", "\n">>)}

DevResults ==
    {Raised,
     Ran(0, <<"a", "p", "e", "x", "_", "0", "\n", "n", "u", "l", "l", "\n">>),
     Ran(0, <<"d", "r", "i", "\n", "n", "u", "l", "l", "\n">>),
     Ran(0, <<"n", "u", "l", "l", "\n", "t", "t", "y", "\n">>)}

\* a float, kept as num / den with den a power of ten and no trailing zero
RECURSIVE Normalize(_, _)
Normalize(num, den) ==
    IF den > 1 /\ num % 10 = 0 THEN Normalize(num \div 10, den \div 10)
    ELSE [num |-> num, den |-> den]

\* re.search(r'temp=(\d+\.?\d*)\'C', s): [found, group]
RECURSIVE TempMatch(_)
TempMatch(s) ==
    LET i == IndexOf(s, <<"t", "e", "m", "p", "=">>)
        rest == SubSeq(s, i + 5, Len(s))
        run(t) == LET stops == {k \in 1..Len(t) : t[k] \notin Digits}
                  IN  IF stops = {} THEN Len(t)
                      ELSE (CHOOSE k \in stops : \A m \in stops : k <= m) - 1
        n1 == run(rest)
        after1 == SubSeq(rest, n1 + 1, Len(rest))
        dot == after1 # <<>> /\ after1[1] = "."
        n2 == IF dot THEN run(Tail(after1)) ELSE 0
        with_dot == SubSeq(rest, 1, n1 + 1 + n2)
        closes(n) == SubSeq(rest, n + 1, n + 2) = <<"'", "C">>
    IN  IF i = 0 THEN [found |-> FALSE, group |-> <<>>]
        ELSE IF n1 >= 1 /\ dot /\ closes(n1 + 1 + n2) THEN [found |-> TRUE, group |-> with_dot]
        ELSE IF n1 >= 1 /\ closes(n1) THEN [found |-> TRUE, group |-> SubSeq(rest, 1, n1)]
        ELSE TempMatch(SubSeq(s, i + 1, Len(s)))

\* a Python float or None
None == [none |-> TRUE, num |-> 0, den |-> 1]
Float(num, den) == [none |-> FALSE] @@ Normalize(num, den)

\* a get_cpu_temperature that answers a failed read with the reading -1.0
get_cpu_temperature_Sentinel(result) ==
    LET temp_match == TempMatch(result.stdout)
        value == ParseFloat(temp_match.group)
    IN  IF result.raised THEN [value |-> Float(-1, 1), warned |-> TRUE]
        ELSE IF result.returncode = 0 /\ temp_match.found
        THEN [value |-> Float(value.num, value.den), warned |-> FALSE]
        ELSE [value |-> Float(-1, 1), warned |-> FALSE]

\* SimpleAIHatMonitor.get_cpu_temperature: [value, warned]
get_cpu_temperature(result) ==
    LET temp_match == TempMatch(result.stdout)
        value == ParseFloat(temp_match.group)
    IN  IF result.raised THEN [value |-> None, warned |-> TRUE]
        ELSE IF result.returncode = 0 /\ temp_match.found
        THEN [value |-> Float(value.num, value.den), warned |-> FALSE]
        ELSE [value |-> None, warned |-> FALSE]

AiKeywordsLsmod == {<<"h", "a", "i", "l", "o">>, <<"c", "o", "r", "a", "l">>, <<"t", "p", "u">>, <<"n", "p", "u">>, <<"a", "i">>}

\* SimpleAIHatMonitor.detect_ai_hat: [present, warned, ran_dev]; an exception of
\* either subprocess.run leaves the try block at once
detect_ai_hat(lsmod, dev) ==
    IF lsmod.raised THEN [present |-> FALSE, warned |-> TRUE, ran_dev |-> FALSE]
    ELSE IF \E keyword \in AiKeywordsLsmod : Contains(Lower(lsmod.stdout), keyword)
    THEN [present |-> TRUE, warned |-> FALSE, ran_dev |-> FALSE]
    ELSE IF dev.raised THEN [present |-> FALSE, warned |-> TRUE, ran_dev |-> TRUE]
    ELSE IF Contains(dev.stdout, <<"a", "p", "e", "x">>) \/ Contains(dev.stdout, <<"d", "r", "i">>)
    THEN [present |-> TRUE, warned |-> FALSE, ran_dev |-> TRUE]
    ELSE [present |-> FALSE, warned |-> FALSE, ran_dev |-> TRUE]

\* a collect_metrics that lets the exception of a probe reach run()
collect_metrics_reraises(current) ==
    current.temp.raised \/ current.lsmod.raised \/ current.dev.raised

\* collect_metrics wraps its whole body in try / except Exception, and the two
\* probes catch their own exceptions: no Exception reaches run()
collect_metrics_propagates(current) == FALSE

PollSeconds == 30
BackoffSeconds == 60

\* if cpu_temp:
Truthy(value) == ~value.none /\ value.num # 0

Unset == [set |-> FALSE, num |-> 0, den |-> 1]
SetTo(num, den) == [set |-> TRUE, num |-> num, den |-> den]

\* devices is what `ls /dev/` prints on the machine during the poll, dev what
\* detect_ai_hat got from it (NotRun when it did not get that far)
NoPoll ==
    [temp |-> NotRun, lsmod |-> NotRun, dev |-> NotRun, devices |-> NotRun,
     cpu_temp |-> None, ai_hat_present |-> FALSE]

MonInit ==
    /\ mon_pc = "init"
    /\ cpu_temp = Unset
    /\ ai_hat_temp = Unset
    /\ ai_hat_detected = Unset
    /\ poll = NoPoll
    /\ mon_log = {}
    /\ slept = 0
    /\ stop_path = ""

\* run: start_http_server(9102); OSError for a port in use is not caught
StartServer ==
    /\ mon_pc = "init"
    /\ main_pc = "start" /\ sh_pc = "start"
    /\ \E in_use \in BOOLEAN :
          IF in_use
          THEN mon_pc' = "crashed" /\ stop_path' = "traceback"
          ELSE mon_pc' = "read_temp" /\ UNCHANGED stop_path
    /\ UNCHANGED <<cpu_temp, ai_hat_temp, ai_hat_detected, poll, mon_log, slept, diag_vars, sh_vars>>

\* collect_metrics: cpu_temp = self.get_cpu_temperature()
ReadTemp ==
    /\ mon_pc = "read_temp"
    /\ \E result \in VcgencmdResults : \E got \in {get_cpu_temperature(result)} :
          /\ poll' = [NoPoll EXCEPT !.temp = result, !.cpu_temp = got.value]
          /\ mon_log' = IF got.warned THEN {"Could not read CPU temperature"} ELSE {}
          /\ mon_pc' = IF Truthy(got.value) THEN "set_cpu" ELSE "detect"
    /\ UNCHANGED <<cpu_temp, ai_hat_temp, ai_hat_detected, slept, stop_path, diag_vars, sh_vars>>

\* collect_metrics: self.cpu_temp.set(cpu_temp)
SetCpuTemp ==
    /\ mon_pc = "set_cpu"
    /\ cpu_temp' = SetTo(poll.cpu_temp.num, poll.cpu_temp.den)
    /\ mon_pc' = "set_ai"
    /\ UNCHANGED <<ai_hat_temp, ai_hat_detected, poll, mon_log, slept, stop_path, diag_vars, sh_vars>>

\* collect_metrics: self.ai_hat_temp.set(cpu_temp)
SetAiHatTemp ==
    /\ mon_pc = "set_ai"
    /\ ai_hat_temp' = SetTo(poll.cpu_temp.num, poll.cpu_temp.den)
    /\ mon_pc' = "detect"
    /\ UNCHANGED <<cpu_temp, ai_hat_detected, poll, mon_log, slept, stop_path, diag_vars, sh_vars>>

\* collect_metrics: ai_hat_present = self.detect_ai_hat()
DetectAiHat ==
    /\ mon_pc = "detect"
    /\ \E lsmod \in LsmodResults : \E dev \in DevResults :
       \E got \in {detect_ai_hat(lsmod, dev)} :
          /\ poll' = [poll EXCEPT !.lsmod = lsmod,
                                  !.dev = IF got.ran_dev THEN dev ELSE NotRun,
                                  !.devices = dev,
                                  !.ai_hat_present = got.present]
          /\ mon_log' = mon_log
                \cup (IF got.warned THEN {"AI HAT detection failed"} ELSE {})
                \cup (IF got.present THEN {"AI HAT detected"} ELSE {"No AI HAT detected"})
    /\ mon_pc' = "set_detected"
    /\ UNCHANGED <<cpu_temp, ai_hat_temp, ai_hat_detected, slept, stop_path, diag_vars, sh_vars>>

\* collect_metrics: self.ai_hat_detected.set(1 if ai_hat_present else 0), and the
\* return to run()
SetDetected ==
    /\ mon_pc = "set_detected"
    /\ ai_hat_detected' = SetTo(IF poll.ai_hat_present THEN 1 ELSE 0, 1)
    /\ mon_pc' = IF collect_metrics_propagates(poll) THEN "backoff" ELSE "sleep"
    /\ mon_log' = mon_log \cup (IF collect_metrics_propagates(poll) THEN {"Error"} ELSE {})
    /\ UNCHANGED <<cpu_temp, ai_hat_temp, poll, slept, stop_path, diag_vars, sh_vars>>

\* run: time.sleep(30) after a poll, time.sleep(60) in the except Exception branch
Sleep ==
    /\ mon_pc \in {"sleep", "backoff"}
    /\ slept' = IF mon_pc = "backoff" THEN BackoffSeconds ELSE PollSeconds
    /\ mon_pc' = "read_temp"
    /\ UNCHANGED <<cpu_temp, ai_hat_temp, ai_hat_detected, poll, mon_log, stop_path, diag_vars, sh_vars>>

LoopPcs == {"read_temp", "set_cpu", "set_ai", "detect", "set_detected", "sleep", "backoff"}

\* KeyboardInterrupt: caught by run() inside the try block ('Shutting down',
\* break); not caught before the loop or inside the except Exception branch
Interrupt ==
    /\ mon_pc \in LoopPcs \cup {"init"}
    /\ main_pc = "start" /\ sh_pc = "start"
    /\ mon_pc' = "stopped"
    /\ stop_path' = IF mon_pc \in LoopPcs \ {"backoff"} THEN "shutting_down" ELSE "traceback"
    /\ mon_log' = IF mon_pc \in LoopPcs \ {"backoff"} THEN mon_log \cup {"Shutting down"}
                  ELSE mon_log
    /\ UNCHANGED <<cpu_temp, ai_hat_temp, ai_hat_detected, poll, slept, diag_vars, sh_vars>>

MonStep ==
    \/ StartServer \/ ReadTemp \/ SetCpuTemp \/ SetAiHatTemp
    \/ DetectAiHat \/ SetDetected \/ Sleep

MonNext == MonStep \/ Interrupt

(***************************************************************************)
(* The shell variant: src/pihole-config-report.py                          *)
(***************************************************************************)
\* cut -d<d> -f<n> on one line: a line without the delimiter is printed whole
Cut(line, d, n) ==
    LET fields == SplitOn(line, <<d>>)
    IN  IF Len(fields) = 1 THEN line
        ELSE IF n <= Len(fields) THEN fields[n] ELSE <<>>

\* ${s%.*} : s without its shortest suffix that begins with a dot
DropDotSuffix(s) ==
    LET dots == {i \in 1..Len(s) : s[i] = "."}
    IN  IF dots = {} THEN s
        ELSE SubSeq(s, 1, (CHOOSE i \in dots : \A j \in dots : j <= i) - 1)

\* [ "$s" -gt n ] : false, with a message on stderr, unless s is an integer
IntegerGt(s, n) ==
    LET v == ParseInt(s)
    IN  v.ok /\ v.val > n

\* the words of s joined by one space, as xargs echoes them
RECURSIVE JoinSpaces(_)
JoinSpaces(words) ==
    IF words = <<>> THEN <<>>
    ELSE IF Len(words) = 1 THEN words[1]
    ELSE words[1] \o <<" ">> \o JoinSpaces(Tail(words))

\* grep <pattern> : the lines that contain it
Grep(text, pattern) ==
    SelectSeq(SplitOn(text, <<"\n">>), LAMBDA line : line # <<>> /\ Contains(line, pattern))

\* grep <key> /proc/cpuinfo | cut -d':' -f2 | xargs
CpuinfoField(cpuinfo, key) ==
    LET lines == Grep(cpuinfo, key)
        cut == [i \in 1..Len(lines) |-> Cut(lines[i], ":", 2)]
    IN  JoinSpaces(SplitWs(JoinLines(cut)))

\* the number awk reads in a field: its leading digits, 0 without any
AwkNumber(field) ==
    LET stops == {k \in 1..Len(field) : field[k] \notin Digits}
        n == IF stops = {} THEN Len(field)
             ELSE (CHOOSE k \in stops : \A m \in stops : k <= m) - 1
    IN  DigitsValue(SubSeq(field, 1, n))

\* grep MemTotal /proc/meminfo | awk '{printf "%.0f GB", $2/1024/1024}'
RECURSIVE MemoryOf(_)
MemoryOf(lines) ==
    IF lines = <<>> THEN <<>>
    ELSE LET cols == SplitWs(lines[1])
             kb == IF Len(cols) < 2 THEN 0 ELSE AwkNumber(cols[2])
         IN  IntToStr(RoundHalfEven(kb, 1024 * 1024)) \o <<" ", "G", "B">> \o MemoryOf(Tail(lines))

\* grep -q "[0-9a-f][0-9a-f]"
HasHexPair(text) ==
    LET hex == Digits \cup {"a", "b", "c", "d", "e", "f"}
    IN  \E i \in 1..(Len(text) - 1) : text[i] \in hex /\ text[i + 1] \in hex

\* detect_pi_hardware: the line it echoes
detect_pi_hardware(env) ==
    LET pi_model == CpuinfoField(env.cpuinfo, <<"M", "o", "d", "e", "l">>)
        pi_revision == CpuinfoField(env.cpuinfo, <<"R", "e", "v", "i", "s", "i", "o", "n">>)
        pi_memory == MemoryOf(Grep(env.meminfo, <<"M", "e", "m", "T", "o", "t", "a", "l">>))
        has_wifi == Contains(env.ip_link, <<"w", "l", "a", "n">>)
        has_ethernet == Contains(env.ip_link, <<"e", "t", "h">>)
        has_ai_hat ==
            \/ \E keyword \in {<<"c", "o", "r", "a", "l">>, <<"n", "e", "u", "r", "a", "l">>, <<"t", "p", "u">>} : Contains(Lower(env.lsusb), keyword)
            \/ HasHexPair(IF env.i2c_nodes = <<>> THEN <<>> ELSE env.i2c_scan)
        one_type_file == Len(env.cooling_types) = 1
        has_cooling ==
            \/ one_type_file /\ Contains(env.cooling_types[1], <<"f", "a", "n">>)
            \/ env.gpio_fan
            \/ env.fancontrol
        BoolText(b) == IF b THEN <<"t", "r", "u", "e">> ELSE <<"f", "a", "l", "s", "e">>
    IN  pi_model \o <<"|">> \o pi_revision \o <<"|">> \o pi_memory \o <<"|">>
        \o BoolText(has_wifi) \o <<"|">> \o BoolText(has_ethernet) \o <<"|">>
        \o BoolText(has_ai_hat) \o <<"|">> \o BoolText(has_cooling)

RECURSIVE JoinBars(_)
JoinBars(fields) ==
    IF fields = <<>> THEN <<>>
    ELSE IF Len(fields) = 1 THEN fields[1]
    ELSE fields[1] \o <<"|">> \o JoinBars(Tail(fields))

\* IFS='|' read -r PI_MODEL PI_REVISION PI_MEMORY HAS_WIFI HAS_ETHERNET
\* HAS_AI_HAT HAS_COOLING : the last variable takes the rest of the line
ReadProfile(line) ==
    LET fields == SplitOn(line, <<"|">>)
        field(i) == IF i <= Len(fields) THEN fields[i] ELSE <<>>
        rest == IF Len(fields) >= 7 THEN JoinBars(SubSeq(fields, 7, Len(fields))) ELSE <<>>
    IN  [model |-> field(1), revision |-> field(2), memory |-> field(3),
         has_wifi |-> field(4) = <<"t", "r", "u", "e">>, has_ethernet |-> field(5) = <<"t", "r", "u", "e">>,
         has_ai_hat |-> field(6) = <<"t", "r", "u", "e">>, has_cooling |-> rest = <<"t", "r", "u", "e">>]

\* the cooling card: TEMP and TEMP_CLASS.  The pipeline ends in cut, which
\* succeeds, so `|| echo "N/A"` never runs; the elif is tried only when the
\* first test failed
ShellCoolingCard(env) ==
    LET measured == IF env.vcgencmd THEN Strip(env.temp_out) ELSE <<>>
        TEMP == Cut(Cut(measured, "=", 2), "'", 1)
        TEMP_CLASS ==
            IF TEMP # NA /\ IntegerGt(DropDotSuffix(TEMP), WarnAbove) THEN "warning"
            ELSE IF TEMP # NA /\ IntegerGt(DropDotSuffix(TEMP), ErrorAbove) THEN "error"
            ELSE "success"
    IN  El("cooling-card", TEMP_CLASS, "temperature" :> TEMP)

\* the Temperature metric of the System Status section: TEMP and TEMP_CLASS
ShellTemperatureMetric(env) ==
    LET TEMP == Cut(Strip(env.temp_out), "=", 2)
        TEMP_NUM == Cut(JoinSpaces(SplitWs(TEMP)), "'", 1)
        first == IF IntegerGt(DropDotSuffix(TEMP_NUM), WarnAbove) THEN "warning" ELSE ""
        TEMP_CLASS == IF IntegerGt(DropDotSuffix(TEMP_NUM), ErrorAbove) THEN "error" ELSE first
    IN  [temperature |-> TEMP, temperature_class |-> TEMP_CLASS]

\* generate_diagnostics: the file it writes, part by part
ShellRender(profile, env, time) ==
    LET
        \* the Ethernet and WiFi cards.  grep "state UP" prints the line it matches,
        \* so ETH_STATUS of a link that is up is that line followed by Connected
        network_cards ==
            LET up == Grep(env.eth_link, <<"s", "t", "a", "t", "e", " ", "U", "P">>)
                ETH_STATUS == IF up # <<>> THEN JoinLines(up) \o <<"\n">> \o <<"C", "o", "n", "n", "e", "c", "t", "e", "d">>
                              ELSE <<"D", "i", "s", "c", "o", "n", "n", "e", "c", "t", "e", "d">>
                WIFI_STATUS == IF Contains(env.iwconfig, <<"E", "S", "S", "I", "D">>) THEN <<"C", "o", "n", "n", "e", "c", "t", "e", "d">>
                               ELSE <<"D", "i", "s", "c", "o", "n", "n", "e", "c", "t", "e", "d">>
                essid == Grep(env.iwconfig, <<"E", "S", "S", "I", "D">>)
            IN  (IF profile.has_ethernet
                 THEN <<El("ethernet-card",
                           IF ETH_STATUS = <<"C", "o", "n", "n", "e", "c", "t", "e", "d">> THEN "success" ELSE "warning",
                           "status" :> ETH_STATUS)>>
                 ELSE <<>>)
                \o (IF profile.has_wifi
                    THEN <<El("wifi-card",
                              IF WIFI_STATUS = <<"C", "o", "n", "n", "e", "c", "t", "e", "d">> THEN "success" ELSE "warning",
                              ("status" :> WIFI_STATUS)
                              @@ (IF WIFI_STATUS = <<"C", "o", "n", "n", "e", "c", "t", "e", "d">>
                                  THEN "ssid" :> Cut(essid[1], "\"", 2) ELSE EmptyDict))>>
                    ELSE <<>>)
        \* the System Status section; the Temperature metric needs vcgencmd
        system_status ==
            El("system-status", "",
               [uptime |-> env.uptime_p, load |-> env.load, memory_usage |-> env.memory_usage]
               @@ (IF env.vcgencmd THEN ShellTemperatureMetric(env) ELSE EmptyDict))
        \* the Power Supply section; its content needs vcgencmd
        power_supply ==
            IF env.vcgencmd
            THEN El("power-supply",
                    IF Strip(env.throttled) = <<"t", "h", "r", "o", "t", "t", "l", "e", "d", "=", "0", "x", "0">> THEN "status-good" ELSE "status-error",
                    [message |-> IF Strip(env.throttled) = <<"t", "h", "r", "o", "t", "t", "l", "e", "d", "=", "0", "x", "0">>
                                 THEN "No power issues detected"
                                 ELSE "Power/thermal throttling detected!",
                     throttled |-> Strip(env.throttled),
                     voltages |-> [i \in 1..Len(Rails) |-> <<Rails[i], Cut(Strip(env.volts), "=", 2)>>]])
            ELSE El("power-supply", "", EmptyDict)
    IN  <<El("doctype", "", EmptyDict),
          El("head", "", EmptyDict),
          El("header", "", EmptyDict),
          El("system-card", "success",
             [model |-> profile.model, memory |-> profile.memory,
              revision |-> profile.revision])>>
        \o network_cards
        \o (IF profile.has_ai_hat THEN <<El("ai-hat-card", "available", EmptyDict)>> ELSE <<>>)
        \o (IF profile.has_cooling THEN <<ShellCoolingCard(env)>> ELSE <<>>)
        \o <<El("storage-card", "available", "storage_usage" :> env.df_root),
             system_status,
             power_supply>>
        \o (IF profile.has_ai_hat
            THEN <<El("ai-hat-diagnostics", "", "usb_neural" :> env.lsusb)>> ELSE <<>>)
        \o <<El("network-diagnostics", "",
                [gateway |-> IF env.gateway # <<>> /\ env.ping_gateway THEN "success" ELSE "error",
                 internet |-> IF env.ping_internet THEN "success" ELSE "error",
                 dns |-> IF env.nslookup THEN "success" ELSE "error"]),
             El("storage-usb", "", "usb_devices" :> env.lsusb),
             El("system-logs", "display-none", "critical_events" :> env.dmesg),
             El("recommendations", "", "items" :> Recommendations(profile)),
             El("timestamp", "", "generated" :> time),
             El("html-close", "", EmptyDict)>>

\* generate_diagnostics: the profile it reads and the report it writes
generate_diagnostics(env, time) ==
    Only({ [profile |-> profile, doc |-> ShellRender(profile, env, time)] :
           profile \in {ReadProfile(detect_pi_hardware(env))} })

(***************************************************************************)
(* The machines the script runs on.                                        *)
(***************************************************************************)
ShellBaseEnv ==
    [cpuinfo |-> <<"R", "e", "v", "i", "s", "i", "o", "n", "\t", ":", " ", "d", "0", "4", "1", "7", "0", "\n", "M", "o", "d", "e", "l", "\t", "\t", ":", " ", "R", "a", "s", "p", "b", "e", "r", "r", "y", " ", "P", "i", " ", "5", " ", "M", "o", "d", "e", "l", " ", "B", " ", "R", "e", "v", " ", "1", ".", "0", "\n">>,
     meminfo |-> <<"M", "e", "m", "T", "o", "t", "a", "l", ":", " ", " ", " ", " ", " ", " ", " ", " ", "8", "2", "4", "5", "0", "3", "2", " ", "k", "B", "\n">>,
     ip_link |-> <<"1", ":", " ", "l", "o", ":", " ", "<", "L", "O", "O", "P", "B", "A", "C", "K", ">", "\n", "2", ":", " ", "e", "t", "h", "0", ":", " ", "<", "U", "P", ">", "\n", "3", ":", " ", "w", "l", "a", "n", "0", ":", " ", "<", "U", "P", ">", "\n">>,
     lsusb |-> <<"B", "u", "s", " ", "0", "0", "1", " ", "D", "e", "v", "i", "c", "e", " ", "0", "0", "1", ":", " ", "I", "D", " ", "1", "d", "6", "b", ":", "0", "0", "0", "2", " ", "L", "i", "n", "u", "x", " ", "F", "o", "u", "n", "d", "a", "t", "i", "o", "n", " ", "2", ".", "0", " ", "r", "o", "o", "t", " ", "h", "u", "b", "\n">>,
     i2c_nodes |-> <<>>,
     i2c_scan |-> <<>>,
     cooling_types |-> <<>>,
     gpio_fan |-> FALSE,
     fancontrol |-> TRUE,
     vcgencmd |-> TRUE,
     temp_out |-> <<"t", "e", "m", "p", "=", "4", "5", ".", "2", "'", "C", "\n">>,
     throttled |-> <<"t", "h", "r", "o", "t", "t", "l", "e", "d", "=", "0", "x", "0", "\n">>,
     volts |-> <<"v", "o", "l", "t", "=", "0", ".", "8", "5", "0", "0", "V", "\n">>,
     eth_link |-> <<"2", ":", " ", "e", "t", "h", "0", ":", " ", "<", "U", "P", ">", " ", "m", "t", "u", " ", "1", "5", "0", "0", " ", "s", "t", "a", "t", "e", " ", "U", "P", "\n">>,
     iwconfig |-> <<"w", "l", "a", "n", "0", " ", "I", "E", "E", "E", " ", "8", "0", "2", ".", "1", "1", " ", "E", "S", "S", "I", "D", ":", "\"", "h", "o", "m", "e", "\"", "\n">>,
     uptime_p |-> <<"up 2 hours">>,
     load |-> <<"0.10, 0.20, 0.30">>,
     memory_usage |-> <<"12.5% of 7.9GB">>,
     df_root |-> <<"12G used of 58G (21%)">>,
     gateway |-> <<"192.168.1.1">>,
     ping_gateway |-> TRUE,
     ping_internet |-> TRUE,
     nslookup |-> TRUE,
     dmesg |-> <<"usb 1-1: new high-speed USB device">>]

\* the machines the script is run on
ShellEnvs ==
    LET
        \* boards: what differs from the base machine
        boards ==
            { EmptyDict,
              [lsusb |-> <<"B", "u", "s", " ", "0", "0", "2", " ", "D", "e", "v", "i", "c", "e", " ", "0", "0", "3", ":", " ", "I", "D", " ", "1", "8", "d", "1", ":", "9", "3", "0", "2", " ", "G", "o", "o", "g", "l", "e", " ", "C", "o", "r", "a", "l", " ", "T", "P", "U", "\n">>],
              [i2c_nodes |-> <<"/", "d", "e", "v", "/", "i", "2", "c", "-", "1", "\n">>],
              [i2c_nodes |-> <<"/", "d", "e", "v", "/", "i", "2", "c", "-", "1", "\n">>,
               i2c_scan |-> <<" ", " ", " ", " ", " ", "0", " ", " ", "1", " ", " ", "2", "\n", "0", "0", ":", " ", " ", " ", " ", " ", " ", " ", " ", " ", " ", "-", "-", " ", "-", "-", " ", "\n", "1", "0", ":", " ", "-", "-", " ", "-", "-", " ", "1", "a", " ", "\n">>,
               cooling_types |-> << <<"p", "w", "m", "-", "f", "a", "n", "\n">> >>],
              [cpuinfo |-> <<"m", "o", "d", "e", "l", " ", "n", "a", "m", "e", "\t", ":", " ", "A", "R", "M", "v", "7", "\n", "R", "e", "v", "i", "s", "i", "o", "n", "\t", ":", " ", "c", "0", "3", "1", "1", "1", "\n", "M", "o", "d", "e", "l", "\t", "\t", ":", " ", "R", "a", "s", "p", "b", "e", "r", "r", "y", " ", "P", "i", " ", "4", " ", "M", "o", "d", "e", "l", " ", "B", "\n">>,
               ip_link |-> <<"1", ":", " ", "l", "o", ":", " ", "<", "L", "O", "O", "P", "B", "A", "C", "K", ">", "\n", "3", ":", " ", "w", "l", "a", "n", "0", ":", " ", "<", "U", "P", ">", "\n">>,
               iwconfig |-> <<"w", "l", "a", "n", "0", " ", "I", "E", "E", "E", " ", "8", "0", "2", ".", "1", "1", " ", "E", "S", "S", "I", "D", ":", "o", "f", "f", "/", "a", "n", "y", "\n">>,
               fancontrol |-> FALSE],
              [cpuinfo |-> <<>>, meminfo |-> <<>>, ip_link |-> <<"1", ":", " ", "l", "o", ":", " ", "<", "L", "O", "O", "P", "B", "A", "C", "K", ">", "\n">>,
               fancontrol |-> FALSE, vcgencmd |-> FALSE, temp_out |-> <<>>,
               gateway |-> <<>>, ping_gateway |-> FALSE, ping_internet |-> FALSE],
              [cooling_types |-> << <<"p", "w", "m", "-", "f", "a", "n", "\n">>, <<"P", "r", "o", "c", "e", "s", "s", "o", "r", "\n">> >>, fancontrol |-> FALSE,
               gpio_fan |-> TRUE, throttled |-> <<"t", "h", "r", "o", "t", "t", "l", "e", "d", "=", "0", "x", "5", "0", "0", "0", "5", "\n">>,
               eth_link |-> <<"2", ":", " ", "e", "t", "h", "0", ":", " ", "<", "D", "O", "W", "N", ">", " ", "s", "t", "a", "t", "e", " ", "D", "O", "W", "N", "\n">>] }
        \* what vcgencmd measure_temp prints
        temps ==
            { <<"t", "e", "m", "p", "=", "4", "5", ".", "2", "'", "C", "\n">>, <<"t", "e", "m", "p", "=", "7", "0", ".", "0", "'", "C", "\n">>, <<"t", "e", "m", "p", "=", "7", "0", ".", "5", "'", "C", "\n">>, <<"t", "e", "m", "p", "=", "7", "1", ".", "0", "'", "C", "\n">>,
              <<"t", "e", "m", "p", "=", "8", "0", ".", "0", "'", "C", "\n">>, <<"t", "e", "m", "p", "=", "8", "0", ".", "5", "'", "C", "\n">>, <<"t", "e", "m", "p", "=", "8", "1", ".", "0", "'", "C", "\n">>, <<"t", "e", "m", "p", "=", "8", "5", ".", "3", "'", "C", "\n">>,
              <<"V", "C", "H", "I", " ", "i", "n", "i", "t", "i", "a", "l", "i", "z", "a", "t", "i", "o", "n", " ", "f", "a", "i", "l", "e", "d", "\n">> }
    IN  { (IF "vcgencmd" \in DOMAIN board THEN EmptyDict ELSE "temp_out" :> temp)
              @@ board @@ ShellBaseEnv :
          board \in boards, temp \in temps }

(***************************************************************************)
(* main, create_http_server and CustomHandler of the shell variant.        *)
(***************************************************************************)
PlainFile(ctime, kind) ==
    [ctime |-> ctime, kind |-> kind, profile |-> ReadProfile(<<>>), doc |-> <<>>]

ReportFile(ctime, made) ==
    [ctime |-> ctime, kind |-> "report", profile |-> made.profile, doc |-> made.doc]

\* HTML_FILE="/tmp/rpi_diagnostics_${TIMESTAMP}.html", relative to /tmp
ReportName(time) == "rpi_diagnostics_" \o ToString(time) \o ".html"

\* what /tmp holds before the script starts: a file of somebody else and the
\* report an earlier run left behind (nothing ever removes a report)
ShellTmpAtStart ==
    ("notes.txt" :> PlainFile(-1, "file"))
    @@ ("rpi_diagnostics_-1.html" :> ReportFile(-1, generate_diagnostics(ShellBaseEnv, -1)))

\* glob.glob('/tmp/rpi_diagnostics_*.html')
DiagFiles(files) == {name \in DOMAIN files : files[name].kind = "report"}

\* max(diag_files, key=os.path.getctime)
LatestFile(files) ==
    CHOOSE name \in DiagFiles(files) :
        \A other \in DiagFiles(files) : files[other].ctime <= files[name].ctime

\* main: python3 server.py "$PORT", started in $TEMP_DIR
ServerArgv == <<"server.py", "8080">>

\* subprocess.run(['sudo', 'bash', sys.argv[0], sys.argv[1]], ...)
RefreshCommand(argv) == <<"sudo", "bash", argv[1], argv[2]>>

\* bash regenerates the report only if the file it is given is the script that
\* generates it; given the Python source of the server it fails on its first
\* lines
Regenerates(command) == command[3] = "pihole-config-report.py"

\* SimpleHTTPRequestHandler.do_GET with directory="/tmp": the file the path
\* names, a listing for the directory itself, 404 for a name that is no file
SimpleDoGet(path, files) ==
    LET named == {name \in DOMAIN files : "/" \o name = path}
    IN  IF path = "/"
        THEN [status |-> 200, headers |-> {<<"Content-type", "text/html">>},
              name |-> "/", doc |-> <<El("listing", "", "names" :> DOMAIN files)>>]
        ELSE IF named # {}
        THEN [status |-> 200, headers |-> {<<"Content-type", "guessed">>},
              name |-> Only(named), doc |-> files[Only(named)].doc]
        ELSE [status |-> 404, headers |-> {}, name |-> "", doc |-> <<>>]

\* CustomHandler.do_GET, once /refresh has run its subprocess
CustomDoGet(path, files) ==
    IF path = "/"
    THEN IF DiagFiles(files) # {}
         THEN SimpleDoGet("/" \o LatestFile(files), files)
         ELSE SimpleDoGet("/", files)
    ELSE IF path = "/refresh"
    THEN [status |-> 302, headers |-> {<<"Location", "/">>}, name |-> "", doc |-> <<>>]
    ELSE SimpleDoGet(path, files)

ShellPaths ==
    {"/", "/refresh", "/notes.txt", "/rpi_diagnostics/server.py",
     "/rpi_diagnostics_-1.html", "/missing.html"}

ShellInit ==
    /\ sh_pc = "start"
    /\ sh_files = ShellTmpAtStart
    /\ sh_request = [path |-> "", at |-> 0]
    /\ sh_response = [status |-> 0, headers |-> {}, name |-> "", doc |-> <<>>]
    /\ sh_refreshed = -1
    /\ sh_env = ShellBaseEnv

\* main: generate_diagnostics "$HTML_FILE"
ShellGenerate ==
    /\ sh_pc = "start"
    /\ main_pc = "start" /\ mon_pc = "init"
    /\ \E env \in ShellEnvs : \E made \in {generate_diagnostics(env, now)} :
          /\ sh_files' = (ReportName(now) :> ReportFile(now, made)) @@ sh_files
          /\ sh_env' = env
    /\ sh_pc' = "generated"
    /\ UNCHANGED <<sh_request, sh_response, sh_refreshed, diag_vars, mon_vars>>

\* main: create_http_server writes server.py, then python3 server.py "$PORT";
\* TCPServer raises OSError when the port is in use
ShellStartServer ==
    /\ sh_pc = "generated"
    /\ sh_files' = ("rpi_diagnostics/server.py" :> PlainFile(now, "script")) @@ sh_files
    /\ \E in_use \in BOOLEAN : sh_pc' = IF in_use THEN "exited" ELSE "serving"
    /\ UNCHANGED <<sh_request, sh_response, sh_refreshed, sh_env, diag_vars, mon_vars>>

\* CustomHandler.do_GET
ShellGet ==
    /\ sh_pc = "serving"
    /\ \E path \in ShellPaths : \E env \in ShellEnvs :
       \E files \in {IF path = "/refresh" /\ Regenerates(RefreshCommand(ServerArgv))
                     THEN (ReportName(now) :> ReportFile(now, generate_diagnostics(env, now)))
                              @@ sh_files
                     ELSE sh_files} :
          /\ sh_files' = files
          /\ sh_request' = [path |-> path, at |-> now]
          /\ sh_response' = CustomDoGet(path, files)
          /\ sh_refreshed' = IF path = "/refresh" THEN now ELSE sh_refreshed
          /\ sh_env' = IF files # sh_files THEN env ELSE sh_env
    /\ UNCHANGED <<sh_pc, diag_vars, mon_vars>>

\* SIGINT or SIGTERM: the script is killed, or signal_handler of the server
\* calls sys.exit(0)
ShellSignal ==
    /\ sh_pc # "exited"
    /\ main_pc = "start" /\ mon_pc = "init"
    /\ sh_pc' = "exited"
    /\ UNCHANGED <<sh_files, sh_request, sh_response, sh_refreshed, sh_env, diag_vars, mon_vars>>

ShellNext ==
    \/ ShellGenerate \/ ShellStartServer \/ ShellGet
    \/ ShellSignal \/ Tick

(***************************************************************************)
(* Specifications                                                          *)
(***************************************************************************)
Init == DiagInit /\ MonInit /\ ShellInit

\* the diagnostics server alone
DiagSpec == Init /\ [][DiagNext]_vars

\* the exporter alone
ExporterSpec == Init /\ [][MonNext]_vars

\* the exporter, whose single thread always takes its next step: every
\* subprocess has a timeout and every sleep ends
ExporterFairSpec == ExporterSpec /\ WF_vars(MonStep)

\* the shell variant alone
ShellSpec == Init /\ [][ShellNext]_vars

\* the three programs, one of them running
Next == DiagNext \/ MonNext \/ ShellNext
Spec == Init /\ [][Next]_vars

(***************************************************************************)
(* Properties of the diagnostics server                                    *)
(***************************************************************************)
KnownPaths == {"/", "/index.html", "/refresh", "/api/status"}

\* a request for the report has been handled to its end
ReportHandled ==
    /\ main_pc = "serving"
    /\ handler_pc = "idle"
    /\ request.path \in {"/", "/index.html"}

Sections(doc) == {doc[i].sec : i \in 1..Len(doc)}

MandatorySections ==
    {"doctype", "head", "header", "system-card", "storage-card", "system-status",
     "power-supply", "network-diagnostics", "storage-usb", "system-logs",
     "recommendations", "timestamp", "html-close"}

\* C1 as stated: every request for a path other than /, /refresh and
\* /api/status is answered with 404.
C1_OtherPaths404_AsStated ==
    request.path \notin {"", "/", "/refresh", "/api/status"} => response.status = 404

\* C1: every request for a path other than /, /index.html, /refresh and
\* /api/status is answered with a complete 404 response; /index.html is served
\* like /.
C1_OtherPaths404 ==
    /\ request.path \notin KnownPaths \cup {""} =>
          /\ response.status = 404
          /\ response.complete
          /\ request.ran = {}
    /\ request.path = "/index.html" => response.status = 200

C1_Witness ==
    /\ request.path = "/?t=1"
    /\ response.status = 404

\* every command that did not fail printed what it prints on a healthy board
WellFormedOutputs ==
    request.variant \in WellFormedVariants \cup {NoVariant}
        \cup {v \in ThermalVariants : IsDigitStr(v["thermal_zone"])}

\* C2: whatever subset of the commands fails (missing, non-zero exit or
\* timeout, so that run_command returns the empty string) while the others
\* print well-formed output, generate_html_report returns a complete
\* document: the doctype first, every mandatory section, </html> last, and no
\* exception.
C2_ReportCompleteUnderFailures ==
    (ReportHandled /\ WellFormedOutputs) =>
        /\ ~request.raised
        /\ response.complete
        /\ response.body # <<>>
        /\ response.body[1].sec = "doctype"
        /\ response.body[Len(response.body)].sec = "html-close"
        /\ MandatorySections \subseteq Sections(response.body)

C2_Witness ==
    /\ ReportHandled
    /\ request.failed = ReportCommands
    /\ response.complete
    /\ response.body[Len(response.body)].sec = "html-close"

\* C3 as stated: the process ends only because the port is already bound or
\* because of SIGINT / SIGTERM, whatever the commands print.
C3_OnlyPortOrSignalEndsProcess ==
    main_pc = "exited" => exit_cause \in {"port_in_use", "signal"}

\* C4 as stated: no hardware or status field raises an exception, whatever
\* the commands print: neither hardware detection nor a request ends in one.
C4_NoFieldRaises ==
    /\ exit_cause # "exception"
    /\ ~request.raised

\* C8 as stated: every GET / that has been handled was answered with 200, the
\* content type text/html, the three cache-disabling headers and a report
\* generated during that request.
C8_RootServesFreshReport ==
    (ReportHandled /\ request.path = "/") =>
        /\ response.status = 200
        /\ ReportHeaders \subseteq response.headers
        /\ response.complete
        /\ \E i \in 1..Len(response.body) :
              /\ response.body[i].sec = "timestamp"
              /\ response.body[i].vals["generated"] = request.at

\* C9: GET /refresh is answered with a 302 whose Location is /, runs no
\* command and changes nothing the server holds.
C9_RefreshRedirectsOnly ==
    [][(request' # request /\ request'.path = "/refresh") =>
          /\ response' = [status |-> 302, headers |-> {<<"Location", "/">>},
                          body |-> <<>>, complete |-> TRUE]
          /\ request'.ran = {}
          /\ ~request'.probed
          /\ handler_pc' = "idle"
          /\ UNCHANGED <<main_pc, exit_cause, boot, hardware_info, now>>]_vars

C9_Witness ==
    /\ main_pc = "serving"
    /\ request.path = "/refresh"
    /\ response.status = 302
    /\ hardware_info = FullBoard

\* the cooling cards of the report in the response
CoolingCards ==
    IF request.path \in {"/", "/index.html"} /\ response.complete
    THEN {response.body[i] : i \in {j \in 1..Len(response.body) :
                                        response.body[j].sec = "cooling-card"}}
    ELSE {}

\* the number in front of 'C in the temperature a card displays
Displayed(card) == ParseFloat(SplitOn(card.vals["temperature"], <<"'">>)[1])

\* C10: the cooling card of a report has the class success when its
\* temperature t is parseable and t <= 70, warning when 70 < t <= 80, error
\* when t > 80.
C10_CoolingClassThresholds ==
    \A card \in CoolingCards :
        LET t == Displayed(card)
        IN  t.ok =>
               card.class = IF t.num <= 70 * t.den THEN "success"
                            ELSE IF t.num <= 80 * t.den THEN "warning"
                            ELSE "error"

C10_Witness ==
    \E card \in CoolingCards :
        /\ card.vals["temperature"] = <<"8", "0", ".", "0", "'", "C">>
        /\ card.class = "warning"

(***************************************************************************)
(* Properties of the exporter                                              *)
(***************************************************************************)
\* a probe of the current poll raised or timed out
DetectionFailed == poll.lsmod.raised \/ poll.dev.raised
PollFailed == poll.temp.raised \/ DetectionFailed

\* C5 as stated: a poll whose AI-HAT detection failed leaves the gauge
\* ai_hat_detected as it was.
C5_DetectedRetainedOnFailure ==
    [][(mon_pc = "set_detected" /\ DetectionFailed) =>
          ai_hat_detected' = ai_hat_detected]_vars

\* C6 as stated: the poll that follows a failed poll starts after the
\* 60-second backoff, and the failure was logged.
C6_BackoffAfterFailedPoll ==
    (mon_pc = "read_temp" /\ slept > 0 /\ PollFailed) =>
        /\ slept = BackoffSeconds
        /\ mon_log # {}

\* a step taken inside the loop stays in it or ends it through 'Shutting down'
LeavesLoopByShutdown ==
    mon_pc \in LoopPcs =>
        \/ mon_pc' \in LoopPcs
        \/ /\ mon_pc' = "stopped"
           /\ stop_path' = "shutting_down"
           /\ "Shutting down" \in mon_log'

\* C7: once the metrics server has started, the loop is left only by an
\* interrupt, which ends it through 'Shutting down'; and unless the exporter
\* is interrupted (or never started), collect_metrics is called again and
\* again, whatever the probes return.
C7_LoopEndsOnlyOnInterrupt ==
    /\ [][LeavesLoopByShutdown]_vars
    /\ \/ <>(mon_pc \in {"stopped", "crashed"})
       \/ []<>(mon_pc = "read_temp") /\ []<>(mon_pc = "detect")

C7_Witness ==
    /\ mon_pc = "stopped"
    /\ stop_path = "shutting_down"
    /\ slept = PollSeconds
    /\ PollFailed

(***************************************************************************)
(* Properties of the shell variant                                         *)
(***************************************************************************)
\* the reports below /tmp
ShellReports == {sh_files[name].doc : name \in DiagFiles(sh_files)}

\* the temperature elements of a report: its cooling card and its System
\* Status section when that shows a temperature
TemperatureElements(doc) ==
    {doc[i] : i \in {j \in 1..Len(doc) :
                        /\ doc[j].sec \in {"cooling-card", "system-status"}
                        /\ "temperature" \in DOMAIN doc[j].vals}}

\* the class of an element that classifies temperature
TemperatureClass(el) ==
    IF el.sec = "cooling-card" THEN el.class ELSE el.vals["temperature_class"]

\* the classes the threshold law asks for; nominal is the card's success and
\* the metric's unmarked class
LawClasses(t) ==
    IF t.num <= WarnAbove * t.den THEN {"success", ""}
    ELSE IF t.num <= ErrorAbove * t.den THEN {"warning"}
    ELSE {"error"}

\* C11 as stated: in a report of the shell variant the cooling card and the
\* temperature metric of System Status have the class of the threshold law
\* for the reading t they display, fractional readings included: nominal for
\* t <= 70, warning for 70 < t <= 80, error for t > 80.
C11_ShellThresholdLaw ==
    \A doc \in ShellReports : \A el \in TemperatureElements(doc) :
        LET t == ParseFloat(Cut(el.vals["temperature"], "'", 1))
        IN  t.ok => TemperatureClass(el) \in LawClasses(t)

\* the complete reports of the state: the body of a handled GET / of the
\* Python server with its profile, and the report files of the shell variant
\* with theirs
RenderedReports ==
    (IF ReportHandled /\ response.complete
     THEN {[profile |-> hardware_info, doc |-> response.body]} ELSE {})
    \cup {[profile |-> sh_files[name].profile, doc |-> sh_files[name].doc] :
              name \in DiagFiles(sh_files)}

\* the hardware overview cards
CardSections ==
    {"system-card", "ethernet-card", "wifi-card", "ai-hat-card", "cooling-card",
     "storage-card"}

\* the sections after the cards, in the order of the claim
SectionOrder(has_ai_hat) ==
    <<"system-status", "power-supply">>
    \o (IF has_ai_hat THEN <<"ai-hat-diagnostics">> ELSE <<>>)
    \o <<"network-diagnostics", "storage-usb", "system-logs", "recommendations",
         "timestamp">>

\* C12: every rendered report consists of the page head, then hardware
\* overview cards only (at least the system card), then system status, power
\* supply, AI HAT diagnostics exactly when has_ai_hat is true, network
\* diagnostics, storage/USB, the system logs rendered with display none,
\* recommendations and the timestamp footer, in this order and once each.
C12_SectionsInFixedOrder ==
    \A report \in RenderedReports :
        LET doc == report.doc
            order == SectionOrder(report.profile.has_ai_hat)
            cards == Len(doc) - Len(order) - 4
        IN  /\ cards >= 1
            /\ <<doc[1].sec, doc[2].sec, doc[3].sec>> = <<"doctype", "head", "header">>
            /\ doc[4].sec = "system-card"
            /\ \A i \in 4..(3 + cards) : doc[i].sec \in CardSections
            /\ \A k \in 1..Len(order) : doc[3 + cards + k].sec = order[k]
            /\ doc[Len(doc)].sec = "html-close"
            /\ \A i \in 1..Len(doc) :
                  doc[i].sec = "system-logs" => doc[i].class = "display-none"

\* a report of the Python server for a board with an AI HAT shows the AI HAT
\* diagnostics between power supply and network diagnostics
C12_Witness ==
    /\ ReportHandled /\ response.complete
    /\ hardware_info.has_ai_hat
    /\ \E i \in 2..(Len(response.body) - 1) :
          /\ response.body[i].sec = "ai-hat-diagnostics"
          /\ response.body[i - 1].sec = "power-supply"
          /\ response.body[i + 1].sec = "network-diagnostics"

\* a request for /api/status has been handled to its end
StatusHandled ==
    /\ main_pc = "serving"
    /\ handler_pc = "idle"
    /\ request.path = "/api/status"
    /\ request.probed

\* the report GET / renders in the state of the machine the handled request saw
ReportOfSameState ==
    generate_html_report(hardware_info,
                         Outputs(request.failed, "timeout", request.variant, ReportBase),
                         request.at)

\* the values of the status data are the values the report displays
SameValues(data, doc) ==
    LET part(name) == Only({doc[i] : i \in {j \in 1..Len(doc) : doc[j].sec = name}})
        has(name) == name \in Sections(doc)
        reach(flag) == IF flag THEN "success" ELSE "error"
    IN  /\ \A key \in {"model", "memory", "revision"} :
              part("system-card").vals[key] = data.hardware[key]
        /\ has("ethernet-card") = data.hardware.has_ethernet
        /\ has("wifi-card") = data.hardware.has_wifi
        /\ has("ai-hat-card") = data.hardware.has_ai_hat
        /\ has("cooling-card") = data.hardware.has_cooling
        /\ \A key \in DOMAIN data.system :
              part("system-status").vals[key] = data.system[key]
        /\ \A key \in {"throttled", "voltages"} :
              part("power-supply").vals[key] = data.power[key]
        /\ (part("power-supply").class = "status-error") = data.power.has_issues
        /\ part("power-supply").vals["recent_events"] = JoinLines(data.power.recent_events)
        /\ \A key \in {"interfaces", "routes", "stats"} :
              part("network-diagnostics").vals[key] = data.network[key]
        /\ part("network-diagnostics").vals["gateway"] = reach(data.network.gateway_reachable)
        /\ part("network-diagnostics").vals["internet"] = reach(data.network.internet_reachable)
        /\ part("network-diagnostics").vals["dns"] = reach(data.network.dns_working)
        /\ "ethernet" \in DOMAIN data.network =>
              \A key \in DOMAIN data.network["ethernet"] \ {"ip"} :
                  part("ethernet-card").vals[key] = data.network["ethernet"][key]
        /\ "wifi" \in DOMAIN data.network =>
              \A key \in DOMAIN data.network["wifi"] :
                  part("wifi-card").vals[key] = data.network["wifi"][key]

\* C13 as stated: the body of a handled /api/status is one JSON document, and
\* the values under its hardware, system, network and power keys are the
\* values the report of GET / displays in the same state of the machine.
C13_StatusEqualsReport ==
    StatusHandled =>
        /\ Len(response.body) = 1
        /\ ~ReportOfSameState.exc
        /\ SameValues(response.body[1], ReportOfSameState.doc)

\* the document a second call of generate_html_report gives at the time given,
\* with the profile and the command outputs of the handled request
SecondReport(time) ==
    generate_html_report(hardware_info,
                         Outputs(request.failed, "timeout", request.variant, ReportBase),
                         time).doc

\* C14: a second call of generate_html_report with the same profile and the
\* same output of every command gives the document of the first call, part by
\* part, but for the time in the 'Report generated' footer.
C14_SameReportButTimestamp ==
    (ReportHandled /\ response.complete) =>
        \A time \in 0..MaxClock : \A second \in {SecondReport(time)} :
            /\ Len(second) = Len(response.body)
            /\ \A i \in 1..Len(response.body) :
                  IF response.body[i].sec = "timestamp"
                  THEN second[i] = [response.body[i] EXCEPT !.vals = "generated" :> time]
                  ELSE second[i] = response.body[i]

\* a report generated at time 0 whose second generation at time 1 differs,
\* in the footer
C14_Witness ==
    /\ ReportHandled /\ response.complete
    /\ request.at = 0
    /\ SecondReport(1) # response.body
    /\ SecondReport(0) = response.body

\* the time in the footer of the document of the last response
ServedGenerated ==
    Only({sh_response.doc[i].vals["generated"] :
             i \in {j \in 1..Len(sh_response.doc) : sh_response.doc[j].sec = "timestamp"}})

\* C15 as stated: when GET /refresh of the shell variant has been answered,
\* with 302, a report file written during that request exists; and a GET /
\* handled after a refresh serves a report generated no earlier than that
\* refresh.
C15_RefreshRegeneratesReport ==
    /\ sh_request.path = "/refresh" =>
          /\ sh_response.status = 302
          /\ \E name \in DiagFiles(sh_files) : sh_files[name].ctime = sh_refreshed
    /\ (sh_request.path = "/" /\ sh_refreshed >= 0) =>
          /\ sh_response.status = 200
          /\ ServedGenerated >= sh_refreshed

\* C16 as stated: the shell variant answers every path other than / and
\* /refresh with 404, and the only file of /tmp it ever returns is the latest
\* report.
C16_OnlyLatestReportServed ==
    /\ sh_request.path \notin {"", "/", "/refresh"} => sh_response.status = 404
    /\ sh_response.status = 200 => sh_response.name = LatestFile(sh_files)

\* a step that changes the profile is the construction of RPiDiagnostics at
\* startup or the end of the process
ProfileSetAtConstructionOnly ==
    hardware_info' # hardware_info => (main_pc = "start" \/ main_pc' = "exited")

\* C17: hardware_info is assigned once, by the constructor at startup; no
\* request changes it, whatever the commands of the request find.
C17_ProfileComputedOnce == [][ProfileSetAtConstructionOnly]_vars

\* a request handled on a board detected with WiFi while iwconfig finds
\* nothing any more: the profile still says WiFi
C17_Witness ==
    /\ main_pc = "serving" /\ handler_pc = "idle"
    /\ request.probed
    /\ "iwconfig" \in request.failed
    /\ hardware_info.has_wifi

\* C18 as stated: every handled GET / and GET /api/status has run the system,
\* power and network probes during that request and answers with what they
\* returned.
C18_ProbesRerunPerRequest ==
    (ReportHandled \/ StatusHandled) =>
        /\ {"uptime_p", "uptime", "free", "measure_temp"} \subseteq request.ran
        /\ PowerCommands \subseteq request.ran
        /\ {"route_gw", "ping_inet", "nslookup", "ip_addr"} \subseteq request.ran
        /\ response.complete

\* C19: the Python server handles at most one request at a time: no request
\* is begun while the handler of another one has not returned.
C19_OneRequestAtATime == ~request.overlapped

\* a request is being handled, and it was begun when no other was
C19_Witness ==
    /\ main_pc = "serving"
    /\ handler_pc \in {"report", "status"}
    /\ ~request.overlapped

\* C20 as stated: every subprocess the Python diagnostics program starts is
\* bounded by a timeout, so main() is never left waiting without bound for a
\* command before it reaches serve_forever, and no handler is left waiting
\* for one.
C20_SubprocessesBounded ==
    /\ main_pc # "blocked"
    /\ handler_pc # "blocked"

(***************************************************************************)
(* Properties of the detectors and of the rules over the profile           *)
(***************************************************************************)
\* what the commands of detect_hardware printed at startup (a command that
\* failed or timed out printed nothing)
BootOutputs == Outputs(boot.failed, "timeout", boot.variant, BootBase)

\* the evidence of an accelerator the Python detector was given: a keyword in
\* the lsusb output, or a /dev/i2c-* node
PythonAiEvidence ==
    \/ \E keyword \in AiKeywordsUsb : Contains(Lower(BootOutputs["lsusb_detect"]), keyword)
    \/ BootOutputs["ls_i2c_detect"] # <<>>

\* the same evidence on the machine the shell variant made its report on
ShellAiEvidence ==
    \/ \E keyword \in {<<"c", "o", "r", "a", "l">>, <<"n", "e", "u", "r", "a", "l">>, <<"t", "p", "u">>} : Contains(Lower(sh_env.lsusb), keyword)
    \/ sh_env.i2c_nodes # <<>>

\* C21 as stated: in the Python detector and in the shell detector has_ai_hat
\* is true exactly when lsusb shows an accelerator keyword or a /dev/i2c-*
\* node exists; a command that fails is no evidence.
C21_AiHatIffUsbOrI2cNode ==
    /\ main_pc = "detected" => (hardware_info.has_ai_hat <=> PythonAiEvidence)
    /\ sh_files[LatestFile(sh_files)].profile.has_ai_hat <=> ShellAiEvidence

\* the items of the claim, in its order
RecommendationOrder ==
    <<"Pi 5 Power", "AI HAT Power", "AI HAT Cooling", "AI HAT Performance",
      "Dual Network", "Active Cooling">>

\* when the claim says an item appears
ItemDue(item, profile) ==
    CASE item = "Pi 5 Power" -> Contains(profile.model, <<"P", "i", " ", "5">>)
      [] item = "AI HAT Power" -> Contains(profile.model, <<"P", "i", " ", "5">>) /\ profile.has_ai_hat
      [] item \in {"AI HAT Cooling", "AI HAT Performance"} -> profile.has_ai_hat
      [] item = "Dual Network" -> profile.has_wifi /\ profile.has_ethernet
      [] item = "Active Cooling" -> profile.has_cooling

\* C22: in every rendered report, whatever the status values in it, the
\* recommendations are the items of the claim that are due for the profile,
\* in the order of the claim.
C22_RecommendationsFromProfile ==
    \A report \in RenderedReports :
        \A i \in 1..Len(report.doc) :
            report.doc[i].sec = "recommendations" =>
                report.doc[i].vals["items"] =
                    SelectSeq(RecommendationOrder, LAMBDA item : ItemDue(item, report.profile))

\* a report of the Python server for a board that is no Pi 5 and has an AI
\* HAT: the cooling and performance items without the power items
C22_Witness ==
    /\ ReportHandled /\ response.complete
    /\ ~Contains(hardware_info.model, <<"P", "i", " ", "5">>)
    /\ hardware_info.has_ai_hat
    /\ \E i \in 1..Len(response.body) :
          /\ response.body[i].sec = "recommendations"
          /\ SubSeq(response.body[i].vals["items"], 1, 2) = <<"AI HAT Cooling", "AI HAT Performance">>

(***************************************************************************)
(* Further properties of the diagnostics server                            *)
(***************************************************************************)
\* C23 as stated: a SIGINT or SIGTERM delivered to the Python diagnostics
\* server ends the process at once, also while a request is in progress: no
\* signal is delivered and the process goes on, and the process a signal has
\* ended serves nothing any more.
C23_SignalExitsAtOnce ==
    /\ ~swallowed
    /\ exit_cause = "signal" => main_pc = "exited"

\* C24 as stated: whenever the client of GET / or GET /api/status has been
\* sent the status 200, the body of the response has been produced and
\* written: no 200 is ever out without its complete document.
C24_Status200AfterBody ==
    (request.path \in {"/", "/index.html", "/api/status"} /\ response.status = 200) =>
        response.complete

\* the Power Supply section of the report in the response
PowerSections ==
    IF ReportHandled /\ response.complete
    THEN {response.body[i] : i \in {j \in 1..Len(response.body) :
                                        response.body[j].sec = "power-supply"}}
    ELSE {}

\* C25 as stated: a report of the Python server says 'No power issues
\* detected' (class status-good) only if vcgencmd get_throttled printed
\* throttled=0x0 in that request; when the status could not be read the
\* report does not say that power is fine.
C25_PowerGoodOnlyIfReported ==
    \A section \in PowerSections :
        (section.class = "status-good" \/ section.vals["message"] = "No power issues detected")
            => /\ "get_throttled" \notin request.failed
               /\ section.vals["throttled"] = <<"t", "h", "r", "o", "t", "t", "l", "e", "d", "=", "0", "x", "0">>

\* C26 as stated: a complete report of the Python server that displays a
\* temperature above 70 has a temperature element (the cooling card or the
\* Temperature metric of System Status) with the class warning, and one that
\* displays a temperature above 80 has one with the class error, on boards
\* with and without cooling hardware.
C26_HotTemperatureFlagged ==
    (ReportHandled /\ response.complete) =>
        \A status \in {response.body[i] : i \in {j \in 1..Len(response.body) :
                                                    response.body[j].sec = "system-status"}} :
            LET t == Displayed(status)
                classes == {IF el.sec = "cooling-card" THEN el.class
                            ELSE Get(el.vals, "temperature_class", "") :
                                el \in TemperatureElements(response.body)}
            IN  /\ (t.ok /\ t.num > ErrorAbove * t.den) => "error" \in classes
                /\ (t.ok /\ t.num > WarnAbove * t.den /\ t.num <= ErrorAbove * t.den)
                      => "warning" \in classes

(***************************************************************************)
(* Further properties of the exporter                                      *)
(***************************************************************************)
\* the reading of the current poll: vcgencmd exited 0 and printed temp=v'C
ParsedReading ==
    /\ ~poll.temp.raised
    /\ poll.temp.returncode = 0
    /\ TempMatch(poll.temp.stdout).found

\* the temperature part of the current poll is over
TemperatureDone == mon_pc \in {"detect", "set_detected", "sleep"}

\* C27 as stated: a poll in which vcgencmd exits 0 and prints a parseable
\* temp=v'C sets cpu_temperature_celsius and ai_hat_temperature_celsius to v,
\* for every v >= 0, 0 and 0.0 included.
C27_ParsedReadingSetsBothGauges ==
    (TemperatureDone /\ ParsedReading) =>
        \A v \in {ParseFloat(TempMatch(poll.temp.stdout).group)} :
        \A reading \in {Normalize(v.num, v.den)} :
            /\ cpu_temp = SetTo(reading.num, reading.den)
            /\ ai_hat_temp = SetTo(reading.num, reading.den)

\* C28 as stated: at every point of the poll loop, in the middle of a poll
\* included, a scrape of /metrics finds ai_hat_temperature_celsius equal to
\* cpu_temperature_celsius.
C28_ScrapeSeesEqualTemperatures ==
    mon_pc \in LoopPcs => ai_hat_temp = cpu_temp

\* the temperature read of the current poll failed: vcgencmd is missing or
\* timed out, exited non-zero, or printed nothing that parses
FailedRead ==
    /\ poll.temp # NotRun
    /\ ~ParsedReading

\* a step of a poll whose temperature read failed keeps both temperature
\* gauges and goes on to the detection
FailedReadStep ==
    (mon_pc \in {"read_temp", "detect", "set_detected"} /\ FailedRead' /\ mon_pc' \in LoopPcs) =>
        /\ cpu_temp' = cpu_temp
        /\ ai_hat_temp' = ai_hat_temp
        /\ mon_pc' = CASE mon_pc = "read_temp" -> "detect"
                       [] mon_pc = "detect" -> "set_detected"
                       [] OTHER -> "sleep"

\* C29: a poll whose temperature read fails leaves both temperature gauges
\* at their previous values, and the same poll still runs the AI-HAT
\* detection and sets ai_hat_detected from it.
C29_FailedReadKeepsGaugesAndDetects ==
    /\ [][FailedReadStep]_vars
    /\ [](mon_pc = "sleep" /\ FailedRead =>
             /\ poll.lsmod # NotRun
             /\ ai_hat_detected = SetTo(IF poll.ai_hat_present THEN 1 ELSE 0, 1))

C29_Witness ==
    /\ mon_pc = "sleep"
    /\ poll.temp.raised
    /\ cpu_temp = SetTo(452, 10)
    /\ ai_hat_temp = SetTo(452, 10)
    /\ ai_hat_detected = SetTo(1, 1)

\* what the machine shows during the current poll
DevicesShowAccelerator ==
    /\ ~poll.devices.raised
    /\ poll.devices # NotRun
    /\ \/ Contains(poll.devices.stdout, <<"a", "p", "e", "x">>)
       \/ Contains(poll.devices.stdout, <<"d", "r", "i">>)

ModulesShowAccelerator ==
    /\ ~poll.lsmod.raised
    /\ \E keyword \in AiKeywordsLsmod : Contains(Lower(poll.lsmod.stdout), keyword)

\* C30 as stated: detect_ai_hat answers True whenever the /dev listing holds
\* 'apex' or 'dri', also when lsmod is missing, fails or times out, and
\* whenever the lsmod output holds a keyword, also when the /dev probe fails.
C30_EvidenceCombinedIndependently ==
    mon_pc = "set_detected" =>
        /\ DevicesShowAccelerator => poll.ai_hat_present
        /\ ModulesShowAccelerator => poll.ai_hat_present

====
